---- MODULE Spec2Model ----
(***************************************************************************)
(* Model of the JSON recovery pipeline of GeminiPDFService                 *)
(* (app/Pdf/llm_service.py): _clean_json_string, _parse_json_safely and    *)
(* the part of generate_proposal that calls the model, decodes its answer  *)
(* and shapes the result.                                                  *)
(*                                                                         *)
(* A text is a sequence of characters, each character a short string; a    *)
(* run of letters that no scanner looks into (a field name, a word of a    *)
(* fixed message) may be carried as one element.  json.loads is modelled   *)
(* by a recursive-descent parser that follows the strict decoder of the    *)
(* Python standard library.                                                *)
(***************************************************************************)
EXTENDS Integers, Sequences, FiniteSets, TLC

VARIABLES
    pc,           \* where generate_proposal / _parse_json_safely stands
    model_call,   \* how client.models.generate_content ended
    response,     \* the answer of the model and how it was built
    report_text,  \* response.text.strip()
    parsed,       \* what _parse_json_safely returned or raised
    exc,          \* the exception on its way to the outer handler
    result,       \* what generate_proposal returns
    tried,        \* the strategies _parse_json_safely has entered, in order
    calls,        \* how often generate_content was called by this invocation
    fixed,        \* strategy 4: the text it closed and parsed, if it built one
    found_objects, \* json_objects of strategy 5: the objects it collected
    api_key,      \* settings.GEMINI_API_KEY is a non-empty string
    gemini_service, \* the module global of pdf_router: 0 is None
    constructed,  \* how many GeminiPDFService objects were constructed
    req,          \* the requests to POST /pdf/analyze
    active,       \* the request whose handler is inside generate_proposal
    health        \* the requests to GET /pdf/health answered so far

\* the locals of generate_proposal
call_vars == <<model_call, response, report_text, parsed, exc, result,
               tried, calls, fixed, found_objects>>

\* the state of the application around it
app_vars == <<api_key, gemini_service, constructed, req, active, health>>

vars == <<pc, call_vars, app_vars>>

----------------------------------------------------------------------------
(* Characters *)

QT == "\""
BS == "\\"
LF == "\n"
CR == "\r"
TAB == "\t"
SP == " "
\* the backquote character (a TLA+ string cannot hold it)
BT == "BQ"

\* backspace (code point 8) and form feed (code point 12)
BSP == "BSP"
FF == "FF"

\* str.strip() with no argument removes these from both ends, and str.split()
\* splits at them; JSON whitespace is the same without the form feed
IsSpace(c) == c \in {SP, LF, CR, TAB, FF}

\* characters with a code point below 32: the strict JSON decoder rejects
\* them inside a string literal
IsControl(c) == c \in {LF, CR, TAB, BSP, FF}

Digits == {"0", "1", "2", "3", "4", "5", "6", "7", "8", "9"}

SetMin(S) == CHOOSE x \in S : \A y \in S : x <= y
SetMax(S) == CHOOSE x \in S : \A y \in S : x >= y

----------------------------------------------------------------------------
(* Python string primitives *)

Strip(s) ==
    LET keep == {i \in 1..Len(s) : ~IsSpace(s[i])}
    IN  IF keep = {} THEN <<>> ELSE SubSeq(s, SetMin(keep), SetMax(keep))

StartsWith(s, p) == Len(s) >= Len(p) /\ SubSeq(s, 1, Len(p)) = p

EndsWith(s, p) == Len(s) >= Len(p) /\ SubSeq(s, Len(s) - Len(p) + 1, Len(s)) = p

\* s[n:]
DropFirst(s, n) == SubSeq(s, n + 1, Len(s))

\* s[:-n]
DropLast(s, n) == SubSeq(s, 1, Len(s) - n)

\* s[:n]
Prefix(s, n) == SubSeq(s, 1, IF n < Len(s) THEN n ELSE Len(s))

\* s[-n:]
Suffix(s, n) == SubSeq(s, IF n < Len(s) THEN Len(s) - n + 1 ELSE 1, Len(s))

\* str.find / str.rfind of one character: 0-based index, -1 when absent
Find(s, c) ==
    LET at == {i \in 1..Len(s) : s[i] = c}
    IN  IF at = {} THEN -1 ELSE SetMin(at) - 1

RFind(s, c) ==
    LET at == {i \in 1..Len(s) : s[i] = c}
    IN  IF at = {} THEN -1 ELSE SetMax(at) - 1

\* index of the first character at or after i that is one of `stops`,
\* Len(s) + 1 when there is none: a loop over the characters that does the
\* same to every character up to there is modelled as one step over that run
NextAt(s, i, stops) ==
    LET at == {j \in i..Len(s) : s[j] \in stops}
    IN  IF at = {} THEN Len(s) + 1 ELSE SetMin(at)

\* c * n (the empty text when n <= 0)
Repeat(c, n) == [i \in 1..(IF n > 0 THEN n ELSE 0) |-> c]

----------------------------------------------------------------------------
(* _clean_json_string *)

FenceJsonNl == <<BT, BT, BT, "j", "s", "o", "n", LF>>
FenceJson == <<BT, BT, BT, "j", "s", "o", "n">>
FenceNl == <<BT, BT, BT, LF>>
Fence == <<BT, BT, BT>>
NlFence == <<LF, BT, BT, BT>>

MaxFencePasses == 10

\* one pass of the loop body: strip a fence from the start, then from the end
FencePass(text) ==
    LET a == IF StartsWith(text, FenceJsonNl) THEN Strip(DropFirst(text, 8))
             ELSE IF StartsWith(text, FenceJson) THEN Strip(DropFirst(text, 7))
             ELSE IF StartsWith(text, FenceNl) THEN Strip(DropFirst(text, 4))
             ELSE IF StartsWith(text, Fence) THEN Strip(DropFirst(text, 3))
             ELSE text
    IN  IF EndsWith(a, NlFence) THEN Strip(DropLast(a, 4))
        ELSE IF EndsWith(a, Fence) THEN Strip(DropLast(a, 3))
        ELSE a

\* the loop leaving after its first pass, whatever that pass removed
StripFences_OnePass(text, passes) == FencePass(text)

\* how many times the body of the loop runs: the pass that removes nothing
\* runs too, and breaks
RECURSIVE FencePassCount(_, _)
FencePassCount(text, passes) ==
    IF passes = 0 THEN 0
    ELSE IF FencePass(text) = text THEN 1
    ELSE 1 + FencePassCount(FencePass(text), passes - 1)

RECURSIVE StripFences(_, _)
StripFences(text, passes) ==
    IF passes = 0 THEN text
    ELSE LET next == FencePass(text)
         IN  IF next = text THEN text ELSE StripFences(next, passes - 1)

\* BraceSpan with the end taken by find instead of rfind: the first '}'
BraceSpan_FirstClose(text) ==
    LET start_idx == Find(text, "{")
        end_idx == Find(text, "}")
    IN  IF start_idx # -1 /\ end_idx # -1 /\ start_idx < end_idx
        THEN SubSeq(text, start_idx + 1, end_idx + 1)
        ELSE text

\* text[start_idx:end_idx + 1] when a '{' precedes the last '}'
BraceSpan(text) ==
    LET start_idx == Find(text, "{")
        end_idx == RFind(text, "}")
    IN  IF start_idx # -1 /\ end_idx # -1 /\ start_idx < end_idx
        THEN SubSeq(text, start_idx + 1, end_idx + 1)
        ELSE text

CleanJsonString(text) ==
    Strip(BraceSpan(StripFences(Strip(text), MaxFencePasses)))

----------------------------------------------------------------------------
(* JSON values.  Every value is a record of the same shape, so that any    *)
(* two values can be compared: kind names the Python type, str holds the   *)
(* characters of a string or the literal of a number, items the elements   *)
(* of a list, members the key/value pairs of a dict in insertion order.    *)

JVal(kind, str, items, members) ==
    [kind |-> kind, str |-> str, items |-> items, members |-> members]

NullV == JVal("null", <<>>, <<>>, <<>>)
TrueV == JVal("bool", <<"1">>, <<>>, <<>>)
FalseV == JVal("bool", <<"0">>, <<>>, <<>>)
NumV(lit) == JVal("num", lit, <<>>, <<>>)
StrV(chars) == JVal("str", chars, <<>>, <<>>)
ArrV(items) == JVal("arr", <<>>, items, <<>>)
ObjV(members) == JVal("obj", <<>>, <<>>, members)

Member(k, v) == [k |-> k, v |-> v]

DictKeys(members) == {members[i].k : i \in 1..Len(members)}

DictGet(members, k) ==
    members[CHOOSE i \in 1..Len(members) : members[i].k = k].v

\* d[k] = v: an existing key keeps its place and takes the new value
DictSet(members, k, v) ==
    IF k \in DictKeys(members)
    THEN [i \in 1..Len(members) |->
             IF members[i].k = k THEN Member(k, v) ELSE members[i]]
    ELSE Append(members, Member(k, v))

\* d.update(other)
RECURSIVE DictUpdate(_, _)
DictUpdate(members, other) ==
    IF other = <<>> THEN members
    ELSE DictUpdate(DictSet(members, Head(other).k, Head(other).v), Tail(other))

----------------------------------------------------------------------------
(* json.loads: the strict decoder *)

ParseFail == [ok |-> FALSE, val |-> NullV, next |-> 0]
ParseOk(v, n) == [ok |-> TRUE, val |-> v, next |-> n]

\* index of the first character at or after i that is not JSON whitespace
SkipWs(t, i) ==
    LET rest == {j \in i..Len(t) : ~(t[j] \in {SP, LF, CR, TAB})}
    IN  IF rest = {} THEN (IF i > Len(t) THEN i ELSE Len(t) + 1) ELSE SetMin(rest)

\* index of the first character at or after i that is not a digit
SkipDigits(t, i) ==
    LET rest == {j \in i..Len(t) : ~(t[j] \in Digits)}
    IN  IF rest = {} THEN (IF i > Len(t) THEN i ELSE Len(t) + 1) ELSE SetMin(rest)

IsDigitAt(t, i) == i <= Len(t) /\ t[i] \in Digits

\* NUMBER_RE: -?(0|[1-9][0-9]*)(\.[0-9]+)?([eE][-+]?[0-9]+)? matched at i;
\* the index after the match, 0 when there is none
NumberEnd(t, i) ==
    LET j0 == IF i <= Len(t) /\ t[i] = "-" THEN i + 1 ELSE i
    IN  IF ~IsDigitAt(t, j0) THEN 0
        ELSE LET j1 == IF t[j0] = "0" THEN j0 + 1 ELSE SkipDigits(t, j0)
                 j2 == IF j1 <= Len(t) /\ t[j1] = "." /\ IsDigitAt(t, j1 + 1)
                       THEN SkipDigits(t, j1 + 1) ELSE j1
                 k  == IF j2 + 1 <= Len(t) /\ t[j2 + 1] \in {"+", "-"}
                       THEN j2 + 2 ELSE j2 + 1
                 j3 == IF j2 <= Len(t) /\ t[j2] \in {"e", "E"} /\ IsDigitAt(t, k)
                       THEN SkipDigits(t, k) ELSE j2
             IN  j3

\* the constants the scanner spells out
Literals ==
    { [lit |-> <<"n", "u", "l", "l">>, val |-> NullV],
      [lit |-> <<"t", "r", "u", "e">>, val |-> TrueV],
      [lit |-> <<"f", "a", "l", "s", "e">>, val |-> FalseV],
      [lit |-> <<"N", "a", "N">>, val |-> NumV(<<"N", "a", "N">>)],
      [lit |-> <<"I", "n", "f", "i", "n", "i", "t", "y">>,
       val |-> NumV(<<"I", "n", "f", "i", "n", "i", "t", "y">>)],
      [lit |-> <<"-", "I", "n", "f", "i", "n", "i", "t", "y">>,
       val |-> NumV(<<"-", "I", "n", "f", "i", "n", "i", "t", "y">>)] }

LiteralAt(t, i) ==
    {l \in Literals : i + Len(l.lit) - 1 <= Len(t)
                      /\ SubSeq(t, i, i + Len(l.lit) - 1) = l.lit}

\* the character a backslash escape stands for; "" when the escape is invalid
\* (\uXXXX is not modelled: no model text holds a 'u' after a backslash)
Unescape(c) ==
    CASE c = QT -> QT
      [] c = BS -> BS
      [] c = "/" -> "/"
      [] c = "n" -> LF
      [] c = "r" -> CR
      [] c = "t" -> TAB
      [] c = "b" -> "BSP"
      [] c = "f" -> "FF"
      [] OTHER -> ""

\* py_scanstring, strict: i is the index after the opening quote
RECURSIVE ScanString(_, _, _)
ScanString(t, i, acc) ==
    IF i > Len(t) THEN ParseFail
    ELSE IF t[i] = QT THEN ParseOk(StrV(acc), i + 1)
    ELSE IF t[i] = BS THEN
        IF i + 1 > Len(t) \/ Unescape(t[i + 1]) = "" THEN ParseFail
        ELSE ScanString(t, i + 2, Append(acc, Unescape(t[i + 1])))
    ELSE IF IsControl(t[i]) THEN ParseFail
    ELSE ScanString(t, i + 1, Append(acc, t[i]))

RECURSIVE ParseValue(_, _), ParseArrayItems(_, _, _), ArrayAfterValue(_, _, _),
          ArrayAfterWs(_, _, _), ParseObjectMembers(_, _, _), ObjectAfterKey(_, _, _),
          ObjectAfterColon(_, _, _, _), ObjectAfterValue(_, _, _, _),
          ObjectAfterWs(_, _, _)

ParseNumber(t, i, end) ==
    IF end # 0 THEN ParseOk(NumV(SubSeq(t, i, end - 1)), end) ELSE ParseFail

ParseLiteral(t, i, found) ==
    IF found # {}
    THEN ParseOk((CHOOSE l \in found : TRUE).val, i + Len((CHOOSE l \in found : TRUE).lit))
    ELSE ParseNumber(t, i, NumberEnd(t, i))

\* JSONObject, after '{' and whitespace: j is the index of the next character
ParseObject(t, j) ==
    IF j <= Len(t) /\ t[j] = "}" THEN ParseOk(ObjV(<<>>), j + 1)
    ELSE ParseObjectMembers(t, j, <<>>)

\* JSONArray, after '[' and whitespace: j is the index of the next character
ParseArray(t, j) ==
    IF j <= Len(t) /\ t[j] = "]" THEN ParseOk(ArrV(<<>>), j + 1)
    ELSE ParseArrayItems(t, j, <<>>)

\* scan_once
ParseValue(t, i) ==
    IF i > Len(t) THEN ParseFail
    ELSE IF t[i] = QT THEN ScanString(t, i + 1, <<>>)
    ELSE IF t[i] = "{" THEN ParseObject(t, SkipWs(t, i + 1))
    ELSE IF t[i] = "[" THEN ParseArray(t, SkipWs(t, i + 1))
    ELSE ParseLiteral(t, i, LiteralAt(t, i))

\* JSONArray: i is the index of the next element
ParseArrayItems(t, i, acc) == ArrayAfterValue(t, acc, ParseValue(t, i))

ArrayAfterValue(t, acc, r) ==
    IF ~r.ok THEN ParseFail
    ELSE ArrayAfterWs(t, Append(acc, r.val), SkipWs(t, r.next))

\* after an element and whitespace: ']' ends the list, ',' brings the next element
ArrayAfterWs(t, items, j) ==
    IF j > Len(t) THEN ParseFail
    ELSE IF t[j] = "]" THEN ParseOk(ArrV(items), j + 1)
    ELSE IF t[j] = "," THEN ParseArrayItems(t, SkipWs(t, j + 1), items)
    ELSE ParseFail

\* JSONObject: i is the index where the next key's opening quote must be
ParseObjectMembers(t, i, acc) ==
    IF i > Len(t) \/ t[i] # QT THEN ParseFail
    ELSE ObjectAfterKey(t, acc, ScanString(t, i + 1, <<>>))

ObjectAfterKey(t, acc, key) ==
    IF ~key.ok THEN ParseFail
    ELSE ObjectAfterColon(t, acc, key.val.str, SkipWs(t, key.next))

\* after a key and whitespace: c is the index where ':' must be
ObjectAfterColon(t, acc, k, c) ==
    IF c > Len(t) \/ t[c] # ":" THEN ParseFail
    ELSE ObjectAfterValue(t, acc, k, ParseValue(t, SkipWs(t, c + 1)))

ObjectAfterValue(t, acc, k, r) ==
    IF ~r.ok THEN ParseFail
    ELSE ObjectAfterWs(t, DictSet(acc, k, r.val), SkipWs(t, r.next))

\* after a value and whitespace: '}' ends the dict, ',' brings the next key
ObjectAfterWs(t, members, j) ==
    IF j > Len(t) THEN ParseFail
    ELSE IF t[j] = "}" THEN ParseOk(ObjV(members), j + 1)
    ELSE IF t[j] = "," THEN ParseObjectMembers(t, SkipWs(t, j + 1), members)
    ELSE ParseFail

\* the end of the document: nothing but whitespace may follow the value
WholeText(text, r) ==
    IF r.ok /\ SkipWs(text, r.next) > Len(text) THEN r ELSE ParseFail

\* json.loads(text): one value, surrounded by nothing but whitespace
JsonLoads(text) == WholeText(text, ParseValue(text, SkipWs(text, 1)))

----------------------------------------------------------------------------
(* _parse_json_safely, strategy 3: escape_newlines_in_strings *)

RECURSIVE EscapeScan(_, _, _, _)
EscapeScan(s, i, in_string, acc) ==
    IF i > Len(s) THEN acc
    ELSE IF ~in_string THEN
        IF s[i] = QT THEN EscapeScan(s, i + 1, TRUE, Append(acc, QT))
        ELSE EscapeScan(s, NextAt(s, i, {QT}), FALSE,
                        acc \o SubSeq(s, i, NextAt(s, i, {QT}) - 1))
    ELSE IF s[i] = BS THEN
        IF i + 1 <= Len(s)
        THEN EscapeScan(s, i + 2, TRUE, acc \o <<s[i], s[i + 1]>>)
        ELSE EscapeScan(s, i + 1, TRUE, Append(acc, s[i]))
    ELSE IF s[i] = QT THEN EscapeScan(s, i + 1, FALSE, Append(acc, QT))
    ELSE IF s[i] = LF THEN EscapeScan(s, i + 1, TRUE, acc \o <<BS, "n">>)
    ELSE IF s[i] = CR THEN EscapeScan(s, i + 1, TRUE, acc \o <<BS, "r">>)
    ELSE IF s[i] = TAB THEN EscapeScan(s, i + 1, TRUE, acc \o <<BS, "t">>)
    ELSE EscapeScan(s, NextAt(s, i, {BS, QT, LF, CR, TAB}), TRUE,
                    acc \o SubSeq(s, i, NextAt(s, i, {BS, QT, LF, CR, TAB}) - 1))

\* the inner loop without its branch for the backslash: an escaped quote ends
\* the literal
RECURSIVE EscapeScan_QuoteEnds(_, _, _, _)
EscapeScan_QuoteEnds(s, i, in_string, acc) ==
    IF i > Len(s) THEN acc
    ELSE IF ~in_string THEN
        IF s[i] = QT THEN EscapeScan_QuoteEnds(s, i + 1, TRUE, Append(acc, QT))
        ELSE EscapeScan_QuoteEnds(s, NextAt(s, i, {QT}), FALSE,
                                  acc \o SubSeq(s, i, NextAt(s, i, {QT}) - 1))
    ELSE IF s[i] = QT THEN EscapeScan_QuoteEnds(s, i + 1, FALSE, Append(acc, QT))
    ELSE IF s[i] = LF THEN EscapeScan_QuoteEnds(s, i + 1, TRUE, acc \o <<BS, "n">>)
    ELSE IF s[i] = CR THEN EscapeScan_QuoteEnds(s, i + 1, TRUE, acc \o <<BS, "r">>)
    ELSE IF s[i] = TAB THEN EscapeScan_QuoteEnds(s, i + 1, TRUE, acc \o <<BS, "t">>)
    ELSE EscapeScan_QuoteEnds(s, NextAt(s, i, {QT, LF, CR, TAB}), TRUE,
                              acc \o SubSeq(s, i, NextAt(s, i, {QT, LF, CR, TAB}) - 1))

EscapeNewlinesInStrings_QuoteEnds(s) == EscapeScan_QuoteEnds(s, 1, FALSE, <<>>)

EscapeNewlinesInStrings(s) == EscapeScan(s, 1, FALSE, <<>>)

----------------------------------------------------------------------------
(* _parse_json_safely, strategy 4: count unclosed braces and brackets *)

RECURSIVE CountScan(_, _, _, _, _, _)
CountScan(s, i, open_braces, open_brackets, in_string, escape_next) ==
    IF i > Len(s) THEN [open_braces |-> open_braces, open_brackets |-> open_brackets]
    ELSE IF escape_next
    THEN CountScan(s, i + 1, open_braces, open_brackets, in_string, FALSE)
    ELSE IF s[i] = BS
    THEN CountScan(s, i + 1, open_braces, open_brackets, in_string, TRUE)
    ELSE IF s[i] \notin {QT, "{", "}", "[", "]"}
    THEN CountScan(s, NextAt(s, i, {BS, QT, "{", "}", "[", "]"}),
                   open_braces, open_brackets, in_string, FALSE)
    ELSE LET ins == IF s[i] = QT THEN ~in_string ELSE in_string
         IN  IF ins THEN CountScan(s, i + 1, open_braces, open_brackets, ins, FALSE)
             ELSE CountScan(s, i + 1,
                     open_braces + (IF s[i] = "{" THEN 1 ELSE IF s[i] = "}" THEN -1 ELSE 0),
                     open_brackets + (IF s[i] = "[" THEN 1 ELSE IF s[i] = "]" THEN -1 ELSE 0),
                     ins, FALSE)

CountUnclosed(s) == CountScan(s, 1, 0, 0, FALSE, FALSE)

\* cleaned + ('}' * open_braces) + (']' * open_brackets)
CloseTruncated(cleaned, open_braces, open_brackets) ==
    cleaned \o Repeat("}", open_braces) \o Repeat("]", open_brackets)

----------------------------------------------------------------------------
(* _parse_json_safely, strategy 5: extract and merge multiple objects *)

RECURSIVE SplitScan(_, _, _, _, _, _, _), SplitClose(_, _, _, _, _, _)

\* a '}' brought depth back to 0: obj = json.loads(current_obj); a span that
\* parses is collected and current_obj emptied, one that does not is kept
SplitClose(s, i, cur, in_string, json_objects, r) ==
    IF r.ok
    THEN SplitScan(s, i + 1, 0, <<>>, in_string, FALSE, Append(json_objects, r.val))
    ELSE SplitScan(s, i + 1, 0, cur, in_string, FALSE, json_objects)

SplitScan(s, i, depth, current_obj, in_string, escape_next, json_objects) ==
    IF i > Len(s) THEN json_objects
    ELSE LET cur == Append(current_obj, s[i])
         IN  IF escape_next
             THEN SplitScan(s, i + 1, depth, cur, in_string, FALSE, json_objects)
             ELSE IF s[i] = BS
             THEN SplitScan(s, i + 1, depth, cur, in_string, TRUE, json_objects)
             ELSE IF s[i] = QT
             THEN SplitScan(s, i + 1, depth, cur, ~in_string, FALSE, json_objects)
             ELSE IF in_string
             THEN SplitScan(s, NextAt(s, i, {BS, QT}), depth,
                            current_obj \o SubSeq(s, i, NextAt(s, i, {BS, QT}) - 1),
                            in_string, FALSE, json_objects)
             ELSE IF s[i] = "{"
             THEN SplitScan(s, i + 1, depth + 1, cur, in_string, FALSE, json_objects)
             ELSE IF s[i] = "}"
             THEN IF depth - 1 = 0 /\ Strip(cur) # <<>>
                  THEN SplitClose(s, i, cur, in_string, json_objects, JsonLoads(cur))
                  ELSE SplitScan(s, i + 1, depth - 1, cur, in_string, FALSE, json_objects)
             ELSE SplitScan(s, NextAt(s, i, {BS, QT, "{", "}"}), depth,
                            current_obj \o SubSeq(s, i, NextAt(s, i, {BS, QT, "{", "}"}) - 1),
                            in_string, FALSE, json_objects)

SplitObjects(s) == SplitScan(s, 1, 0, <<>>, FALSE, FALSE, <<>>)

\* the merge keeping a key's first value: other first, then what is there
RECURSIVE MergeObjects_FirstWins(_, _)
MergeObjects_FirstWins(json_objects, merged) ==
    IF json_objects = <<>> THEN merged
    ELSE MergeObjects_FirstWins(Tail(json_objects),
            IF Head(json_objects).kind = "obj"
            THEN DictUpdate(Head(json_objects).members, merged)
            ELSE merged)

\* merged = {}; for obj in json_objects: if isinstance(obj, dict): merged.update(obj)
RECURSIVE MergeObjects(_, _)
MergeObjects(json_objects, merged) ==
    IF json_objects = <<>> THEN merged
    ELSE MergeObjects(Tail(json_objects),
            IF Head(json_objects).kind = "obj"
            THEN DictUpdate(merged, Head(json_objects).members)
            ELSE merged)

----------------------------------------------------------------------------
(* Where each of the three scanners takes a character to be inside a       *)
(* string literal: for every position, the value of in_string with which   *)
(* the loop reaches the character there (strategy 3 has no such variable:  *)
(* a character is inside when the inner while loop handles it).            *)

\* `acc` followed by the flag b for the characters i..j
Flagged(acc, b, i, j) == acc \o [k \in 1..(j - i + 1) |-> b]

\* escape_newlines_in_strings: the outer loop copies up to and including the
\* opening quote; the inner loop takes a backslash with the next character
\* and leaves at the closing quote
RECURSIVE EscapeFlags(_, _, _, _)
EscapeFlags(s, i, in_string, acc) ==
    IF i > Len(s) THEN acc
    ELSE IF ~in_string
    THEN EscapeFlags(s, NextAt(s, i, {QT}) + 1, TRUE,
                     Flagged(acc, FALSE, i, IF NextAt(s, i, {QT}) > Len(s)
                                            THEN Len(s) ELSE NextAt(s, i, {QT})))
    ELSE IF NextAt(s, i, {BS, QT}) > Len(s) THEN Flagged(acc, TRUE, i, Len(s))
    ELSE IF s[NextAt(s, i, {BS, QT})] = QT
    THEN EscapeFlags(s, NextAt(s, i, {BS, QT}) + 1, FALSE,
                     Flagged(acc, TRUE, i, NextAt(s, i, {BS, QT})))
    ELSE EscapeFlags(s, NextAt(s, i, {BS, QT}) + 2, TRUE,
                     Flagged(acc, TRUE, i, IF NextAt(s, i, {BS, QT}) + 1 > Len(s)
                                           THEN Len(s) ELSE NextAt(s, i, {BS, QT}) + 1))

\* the loop of strategy 4: a backslash sets escape_next wherever it stands,
\* the character after it is skipped, an unskipped quote toggles in_string
RECURSIVE CountFlags(_, _, _, _, _)
CountFlags(s, i, in_string, escape_next, acc) ==
    IF i > Len(s) THEN acc
    ELSE IF escape_next THEN CountFlags(s, i + 1, in_string, FALSE, Append(acc, in_string))
    ELSE IF NextAt(s, i, {BS, QT}) > Len(s) THEN Flagged(acc, in_string, i, Len(s))
    ELSE IF s[NextAt(s, i, {BS, QT})] = BS
    THEN CountFlags(s, NextAt(s, i, {BS, QT}) + 1, in_string, TRUE,
                    Flagged(acc, in_string, i, NextAt(s, i, {BS, QT})))
    ELSE CountFlags(s, NextAt(s, i, {BS, QT}) + 1, ~in_string, FALSE,
                    Flagged(acc, in_string, i, NextAt(s, i, {BS, QT})))

\* the loop of strategy 5: the same tests, each branch also collecting the
\* character into current_obj
RECURSIVE SplitFlags(_, _, _, _, _)
SplitFlags(s, i, in_string, escape_next, acc) ==
    IF i > Len(s) THEN acc
    ELSE IF escape_next THEN SplitFlags(s, i + 1, in_string, FALSE, Append(acc, in_string))
    ELSE IF NextAt(s, i, {BS, QT}) > Len(s) THEN Flagged(acc, in_string, i, Len(s))
    ELSE IF s[NextAt(s, i, {BS, QT})] = BS
    THEN SplitFlags(s, NextAt(s, i, {BS, QT}) + 1, in_string, TRUE,
                    Flagged(acc, in_string, i, NextAt(s, i, {BS, QT})))
    ELSE SplitFlags(s, NextAt(s, i, {BS, QT}) + 1, ~in_string, FALSE,
                    Flagged(acc, in_string, i, NextAt(s, i, {BS, QT})))

EscapeInString(s) == EscapeFlags(s, 1, FALSE, <<>>)
CountInString(s) == CountFlags(s, 1, FALSE, FALSE, <<>>)
SplitInString(s) == SplitFlags(s, 1, FALSE, FALSE, <<>>)

----------------------------------------------------------------------------
(* _parse_json_safely: what each strategy yields on the raw text.          *)
(* Strategies 1 and 2 catch json.JSONDecodeError, strategies 3 to 5 catch  *)
(* every Exception; a strategy that fails or builds no candidate yields    *)
(* ParseFail and the cascade moves on.                                     *)

\* strategy 1 without its return: the parsed value is dropped
Strategy1Result_NoReturn(text) == ParseFail

Strategy1Result(text) == JsonLoads(text)

\* strategy 2 consulting a flag of the module that another handler sets
Strategy2Result_SharedFlag(text) ==
    IF health.count > 0 THEN ParseFail ELSE JsonLoads(CleanJsonString(text))

Strategy2Result(text) == JsonLoads(CleanJsonString(text))

\* strategy 3 parsing `cleaned` instead of `fixed`
Strategy3Result_ParsesCleaned(text) == JsonLoads(CleanJsonString(text))

Strategy3Result(text) == JsonLoads(EscapeNewlinesInStrings(CleanJsonString(text)))

NoCandidate == [built |-> FALSE, text |-> <<>>]

\* the local `fixed` of strategy 4 after the test of the counts
TruncationCandidate(cleaned, n) ==
    IF n.open_braces > 0 \/ n.open_brackets > 0
    THEN [built |-> TRUE, text |-> CloseTruncated(cleaned, n.open_braces, n.open_brackets)]
    ELSE NoCandidate

\* if open_braces > 0 or open_brackets > 0: close and parse
TruncationFix(cleaned, n) ==
    IF n.open_braces > 0 \/ n.open_brackets > 0
    THEN JsonLoads(CloseTruncated(cleaned, n.open_braces, n.open_brackets))
    ELSE ParseFail

Strategy4OnCleaned(cleaned) == TruncationFix(cleaned, CountUnclosed(cleaned))

Strategy4Result(text) == Strategy4OnCleaned(CleanJsonString(text))

\* if merged: return merged
ReturnMerged(merged) ==
    IF merged # <<>> THEN ParseOk(ObjV(merged), 0) ELSE ParseFail

\* if len(json_objects) > 0: merge them
MergeFound(json_objects) ==
    IF Len(json_objects) > 0
    THEN ReturnMerged(MergeObjects(json_objects, <<>>))
    ELSE ParseFail

Strategy5Result(text) == MergeFound(SplitObjects(CleanJsonString(text)))

----------------------------------------------------------------------------
(* The texts the model may answer with.  A document is written out the way *)
(* json.dumps writes it (", " and ": " separators); with raw = TRUE the    *)
(* characters of a string are written as they are, control characters      *)
(* included, which is how a model breaks a string over two lines.          *)

EscapeChar(c) ==
    CASE c = QT -> <<BS, QT>>
      [] c = BS -> <<BS, BS>>
      [] c = LF -> <<BS, "n">>
      [] c = CR -> <<BS, "r">>
      [] c = TAB -> <<BS, "t">>
      [] c = BSP -> <<BS, "b">>
      [] c = FF -> <<BS, "f">>
      [] OTHER -> <<c>>

RECURSIVE WriteChars(_, _)
WriteChars(chars, raw) ==
    IF chars = <<>> THEN <<>>
    ELSE (IF raw /\ IsControl(Head(chars)) THEN <<Head(chars)>> ELSE EscapeChar(Head(chars)))
         \o WriteChars(Tail(chars), raw)

RECURSIVE Write(_, _), WriteItems(_, _), WriteMembers(_, _)

Write(v, raw) ==
    CASE v.kind = "obj" -> <<"{">> \o WriteMembers(v.members, raw) \o <<"}">>
      [] v.kind = "arr" -> <<"[">> \o WriteItems(v.items, raw) \o <<"]">>
      [] v.kind = "str" -> <<QT>> \o WriteChars(v.str, raw) \o <<QT>>
      [] v.kind = "num" -> v.str
      [] v.kind = "bool" -> IF v = TrueV THEN <<"t", "r", "u", "e">>
                            ELSE <<"f", "a", "l", "s", "e">>
      [] OTHER -> <<"n", "u", "l", "l">>

WriteItems(items, raw) ==
    IF items = <<>> THEN <<>>
    ELSE Write(Head(items), raw)
         \o (IF Len(items) > 1 THEN <<",", SP>> ELSE <<>>)
         \o WriteItems(Tail(items), raw)

WriteMembers(members, raw) ==
    IF members = <<>> THEN <<>>
    ELSE <<QT>> \o WriteChars(Head(members).k, raw) \o <<QT, ":", SP>>
         \o Write(Head(members).v, raw)
         \o (IF Len(members) > 1 THEN <<",", SP>> ELSE <<>>)
         \o WriteMembers(Tail(members), raw)

Dump(v) == Write(v, FALSE)
DumpRaw(v) == Write(v, TRUE)

MaxMembers == 2
MaxFreeLen == 4

\* the most words a proposal is taken to hold
MaxWords == 13200

\* the word totals looked at: around every multiple of 100, which holds the
\* multiples of 500 and of 600 where an estimate changes
WordTotals == {w \in 0..MaxWords : w % 100 \in {0, 1, 99}}

\* report_text[:100], report_text[-100:], report_text[:2000]
StartsWithLen == 100
EndsWithLen == 100
RawResponseLen == 2000

Keys == << <<"a">>, <<"b">>, <<"c">> >>

Num1 == NumV(<<"1">>)
Num2 == NumV(<<"2">>)
Num3 == NumV(<<"3">>)
NaNV == NumV(<<"N", "a", "N">>)

Vals == { Num1, TrueV, StrV(<<"x">>), StrV(<<"}", QT, BS, "[", LF>>),
          ArrV(<<Num1, Num2>>), ObjV(<<Member(<<"b">>, Num3)>>) }

\* the strictly increasing sequences of n key indices
KeyPicks(n) ==
    {ks \in [1..n -> 1..Len(Keys)] : \A i \in 1..n : \A j \in 1..n : i < j => ks[i] < ks[j]}

DocsOf(n, vals) ==
    {ObjV([i \in 1..n |-> Member(Keys[ks[i]], vs[i])]) :
        ks \in KeyPicks(n), vs \in [1..n -> vals]}

DeepDocs ==
    { ObjV(<<Member(<<"a">>, ArrV(<<Num1, Num2, ObjV(<<Member(<<"b">>, Num3)>>)>>))>>),
      ObjV(<<Member(<<"a">>, ObjV(<<Member(<<"b">>, ArrV(<<Num1>>))>>))>>),
      ObjV(<<Member(<<"a">>, StrV(<<"{", QT, BS>>)),
             Member(<<"b">>, ArrV(<<ObjV(<<Member(<<"c">>, ArrV(<<>>))>>)>>))>>),
      ObjV(<<Member(<<"a">>, NaNV)>>) }

Docs == UNION {DocsOf(n, Vals) : n \in 0..MaxMembers} \cup DeepDocs

\* the layouts of a document's text: as json.dumps writes it, without the
\* spaces, with a line break for every space, and with whitespace around it
\* (no string of a document holds a space)
Layouts(d) ==
    { Dump(d),
      SelectSeq(Dump(d), LAMBDA c : c # SP),
      [i \in 1..Len(Dump(d)) |-> IF Dump(d)[i] = SP THEN LF ELSE Dump(d)[i]],
      <<LF, SP>> \o Dump(d) \o <<SP, LF>> }

\* documents with one string value that holds a newline character
NlStrings == { StrV(<<"x", LF, "y">>), StrV(<<LF>>), StrV(<<"x", LF>>),
               StrV(<<QT, LF, "}">>) }

NlDocs ==
    {ObjV(<<Member(<<"a">>, s)>>) : s \in NlStrings}
    \cup {ObjV(<<Member(<<"a">>, v), Member(<<"b">>, s)>>) : v \in Vals, s \in NlStrings}
    \cup {ObjV(<<Member(<<"a">>, ArrV(<<Num1, s>>))>>) : s \in NlStrings}

PairDocs == UNION {DocsOf(n, {Num1, Num2, StrV(<<"}", "{">>)}) : n \in 0..1}

\* text before and after an object: no '{' and no '}' in it
Before == { <<>>, <<"S", "u", "r", "e", ":", LF>>, <<"[">>, <<QT>>, <<BT, QT, "[", SP>> }
After == { <<>>, <<LF, "o", "k", "!">>, <<"]">>, <<QT>>, <<SP, "]", QT, BT>> }

\* net count of open characters minus close characters outside string literals
RECURSIVE NetScan(_, _, _, _, _, _)
NetScan(t, i, open, close, in_string, n) ==
    IF in_string
    THEN IF NextAt(t, i, {BS, QT}) > Len(t) THEN n
         ELSE IF t[NextAt(t, i, {BS, QT})] = BS
         THEN NetScan(t, NextAt(t, i, {BS, QT}) + 2, open, close, TRUE, n)
         ELSE NetScan(t, NextAt(t, i, {BS, QT}) + 1, open, close, FALSE, n)
    ELSE IF NextAt(t, i, {open, close, QT}) > Len(t) THEN n
         ELSE IF t[NextAt(t, i, {open, close, QT})] = QT
         THEN NetScan(t, NextAt(t, i, {open, close, QT}) + 1, open, close, TRUE, n)
         ELSE NetScan(t, NextAt(t, i, {open, close, QT}) + 1, open, close, FALSE,
                      IF t[NextAt(t, i, {open, close, QT})] = open THEN n + 1 ELSE n - 1)

NetOpen(t, open, close, in_string) == NetScan(t, 1, open, close, in_string, 0)

\* the cuts of a document's text after which only closing characters are missing
Truncations(d) ==
    LET full == Dump(d)
    IN  {n \in 1..(Len(full) - 1) :
            /\ \A i \in (n + 1)..Len(full) : full[i] \in {"}", "]"}
            /\ full[n] \notin {"}", "]"} }

FreeAlphabet == {"{", "}", "[", "]", QT, BS, "1"}

FreeTexts == UNION {[1..n -> FreeAlphabet] : n \in 0..MaxFreeLen}

\* texts of quotes, backslashes and raw line breaks, opened by a quote or not
EscAlphabet == {QT, BS, LF, TAB, "a"}

EscTexts ==
    {pre \o x : pre \in {<<QT>>, <<"a">>},
                x \in UNION {[1..n -> EscAlphabet] : n \in 0..(MaxFreeLen - 1)}}

\* texts with a backspace or a form feed: inside a string, between tokens,
\* before and after the document, and without any document
ControlTexts ==
    { DumpRaw(ObjV(<<Member(<<"a">>, StrV(<<"x", BSP, "y">>))>>)),
      DumpRaw(ObjV(<<Member(<<"a">>, StrV(<<"x", FF, "y">>))>>)),
      <<"{", QT, "a", QT, ":", BSP, "1", "}">>,
      <<"{", QT, "a", QT, ":", FF, "1", "}">>,
      <<BSP, "{", "}", BSP>>,
      <<FF, "{", "}", FF>>,
      <<"x", BSP, "y">>,
      <<"x", FF, "y">>,
      <<FF, "x", FF>>,
      <<BSP, "x", BSP>> }

RequiredFields ==
    << <<"document_overview">>, <<"title_page">>, <<"executive_summary">>,
       <<"key_dates_and_rules">>, <<"compliance_matrix">>, <<"technical_approach">> >>

\* documents with the names the success path looks for or writes: all six
\* required sections; the same with keys named like the bookkeeping fields;
\* one section missing and a "_warnings" and a "status" of its own; nothing
\* but a "status"; and strings of several words at the top level, in a list,
\* in a list within a list and in a nested object
Sections == [i \in 1..Len(RequiredFields) |-> Member(RequiredFields[i], StrV(<<"x">>))]

ProposalDocs ==
    { ObjV(Sections),
      ObjV(Sections \o
           << Member(<<"status">>, StrV(<<"error">>)),
              Member(<<"message">>, StrV(<<"m">>)),
              Member(<<"generated_at">>, StrV(<<"g">>)),
              Member(<<"actual_word_count">>, StrV(<<"w", SP, "w", SP, "w">>)),
              Member(<<"estimated_pages">>, StrV(<<"p">>)) >>),
      ObjV(SubSeq(Sections, 1, Len(Sections) - 1) \o
           << Member(<<"_warnings">>, StrV(<<"x">>)),
              Member(<<"status">>, StrV(<<"error">>)) >>),
      ObjV(<< Member(<<"status">>, StrV(<<"error">>)) >>),
      ObjV(<< Member(<<"a">>, StrV(<<"x", SP, "y">>)),
              Member(<<"b">>, ArrV(<< StrV(<<"p", SP, "q">>), Num1,
                                      ArrV(<<StrV(<<"r", SP, "s">>)>>),
                                      ObjV(<<Member(<<"c">>, StrV(<<"t", SP, "u">>))>>) >>)),
              Member(<<"c">>, ObjV(<<Member(<<"d">>, StrV(<<"v", SP, "w">>))>>)),
              Member(<<"document_overview">>,
                     StrV(<<SP, "l", "e", "a", "d", SP, SP, "a", "n", "d", TAB, "t", SP>>)) >>) }

\* n fence markers in a row
Fences(n) == [i \in 1..(3 * n) |-> BT]

\* as many markers as the loop has passes, and one more
MaxNesting == MaxFencePasses + 1
NestDepths == {0, 1, 2, MaxFencePasses, MaxNesting}

\* what the markers enclose: nothing, a word, an object, braces in no order
NestedBodies == { <<>>, <<"x">>, <<"{", "}">>, <<"}", "{">> }

NestedTexts ==
    {Fences(a) \o lead \o body \o Fences(b) :
        a \in NestDepths, b \in NestDepths, lead \in {<<>>, <<LF>>},
        body \in NestedBodies}

\* a text of n characters without a brace: its ends can be told apart
LongText(n) == [i \in 1..n |-> IF i = 1 THEN "a" ELSE IF i = n THEN "z" ELSE "x"]

LongLens == {StartsWithLen - 1, StartsWithLen, StartsWithLen + 1,
             RawResponseLen, RawResponseLen + 1}

\* objects, spans that are not objects, and text between them
SpanPieces ==
    { Dump(ObjV(<<Member(<<"a">>, Num1)>>)), Dump(ObjV(<<Member(<<"a">>, Num2)>>)),
      Dump(ObjV(<<Member(<<"b">>, Num2)>>)), <<"{", "}">>, <<"{", "1", "}">>,
      <<SP>>, <<SP, "x", SP>>, <<"}">> }

SpanTexts == {p[1] \o p[2] \o p[3] : p \in SpanPieces \X SpanPieces \X SpanPieces}

Case(family, text, doc, doc2) ==
    [family |-> family, text |-> text, doc |-> doc, doc2 |-> doc2]

Responses ==
    UNION {{Case("valid", t, d, NullV) : t \in Layouts(d)} : d \in Docs}
    \cup {Case("fenced", open \o Dump(d) \o close, d, NullV) :
            d \in Docs, open \in {FenceJsonNl, FenceJson \o <<SP, CR, LF>>},
            close \in {NlFence, Fence}}
    \cup {Case("prose", c[1] \o Dump(c[3]) \o c[2], c[3], NullV) :
            c \in {x \in Before \X After \X Docs : x[1] # <<>> \/ x[2] # <<>>}}
    \cup {Case("newline", DumpRaw(d), d, NullV) : d \in NlDocs}
    \cup UNION {{Case("truncated", SubSeq(Dump(d), 1, n), d, NullV) : n \in Truncations(d)} :
                  d \in Docs}
    \cup {Case("pair", Dump(p[1]) \o Dump(p[2]), p[1], p[2]) : p \in PairDocs \X PairDocs}
    \cup {Case("free", t, NullV, NullV) : t \in FreeTexts}
    \cup {Case("nested", t, NullV, NullV) : t \in NestedTexts}
    \cup {Case("long", LongText(n), NullV, NullV) : n \in LongLens}
    \cup {Case("spans", t, NullV, NullV) : t \in SpanTexts}
    \cup {Case("escapes", t, NullV, NullV) : t \in EscTexts}
    \cup {Case("control", t, NullV, NullV) : t \in ControlTexts}
    \cup {Case("proposal", Dump(d), d, NullV) : d \in ProposalDocs}

\* the answers of the model to the requests of the application
ServiceResponses ==
    { Case("valid", Dump(d), d, NullV) :
        d \in {ObjV(<<Member(<<"a">>, Num1)>>), ObjV(<<Member(<<"a">>, NaNV)>>)} }
    \cup { Case("fenced", FenceJsonNl \o Dump(ObjV(<<>>)) \o NlFence, ObjV(<<>>), NullV),
            Case("free", <<"[", "1", "]">>, NullV, NullV),
            Case("free", <<"{", QT>>, NullV, NullV),
            Case("long", LongText(StartsWithLen + 1), NullV, NullV) }

NoCase == Case("none", <<>>, NullV, NullV)

----------------------------------------------------------------------------
(* generate_proposal: the shapes of its result *)

MsgParseFailed == "Failed to parse AI response as valid JSON after multiple attempts."
MsgGenerating == "Error generating proposal: "
MsgSuccess == "Proposal generated successfully"
MsgSuggestion == "The AI model generated malformed JSON. Please try again or use a smaller PDF."

Result(status, error_type, message) ==
    [status |-> status, error_type |-> error_type, message |-> message,
     error_text |-> "", suggestion |-> "",
     raw_response |-> <<>>, response_length |-> 0, starts_with |-> <<>>,
     ends_with |-> <<>>, data |-> <<>>, missing_fields |-> <<>>,
     actual_word_count |-> 0, pages_low |-> 0, pages_high |-> 0]

NoResult == Result("none", "", "")

\* the dict of the handler with the whole text in place of its excerpts
ParseErrorResult_WholeText(text) ==
    [Result("error", "json_parse_error", MsgParseFailed) EXCEPT
        !.raw_response = text,
        !.suggestion = MsgSuggestion,
        !.response_length = Len(text),
        !.starts_with = Prefix(text, StartsWithLen),
        !.ends_with = text]

\* the dict of the handler with the start of the text as ends_with too
ParseErrorResult_EndIsStart(text) ==
    [Result("error", "json_parse_error", MsgParseFailed) EXCEPT
        !.raw_response = Prefix(text, RawResponseLen),
        !.suggestion = MsgSuggestion,
        !.response_length = Len(text),
        !.starts_with = Prefix(text, StartsWithLen),
        !.ends_with = Prefix(text, EndsWithLen)]

\* the dict returned by the handler of ValueError
ParseErrorResult(text) ==
    [Result("error", "json_parse_error", MsgParseFailed) EXCEPT
        !.raw_response = Prefix(text, RawResponseLen),
        !.suggestion = MsgSuggestion,
        !.response_length = Len(text),
        !.starts_with = Prefix(text, StartsWithLen),
        !.ends_with = Suffix(text, EndsWithLen)]

\* an exception: the name of its class and str(e)
Exc(type, msg) == [type |-> type, msg |-> msg]

NoExc == Exc("", "")

\* the dict returned by the outer handler: error_type is the class name and
\* message is "Error generating proposal: " followed by str(e)
ExceptionResult(e) ==
    [Result("error", e.type, MsgGenerating) EXCEPT !.error_text = e.msg]

\* len(value.split())
WordCount(chars) ==
    Cardinality({i \in 1..Len(chars) :
        ~IsSpace(chars[i]) /\ (i = 1 \/ IsSpace(chars[i - 1]))})

RECURSIVE ItemWords(_)
ItemWords(items) ==
    IF items = <<>> THEN 0
    ELSE (IF Head(items).kind = "str" THEN WordCount(Head(items).str) ELSE 0)
         + ItemWords(Tail(items))

\* the loop over proposal_data.items(): strings and strings in lists count
RECURSIVE TotalWords(_)
TotalWords(members) ==
    IF members = <<>> THEN 0
    ELSE (CASE Head(members).v.kind = "str" -> WordCount(Head(members).v.str)
            [] Head(members).v.kind = "arr" -> ItemWords(Head(members).v.items)
            [] OTHER -> 0)
         + TotalWords(Tail(members))

Clamp(lo, hi, x) == IF x < lo THEN lo ELSE IF x > hi THEN hi ELSE x

MissingFields(members) ==
    SelectSeq(RequiredFields, LAMBDA f : f \notin DictKeys(members))

\* `field not in proposal_data` and `proposal_data[...] = ...` on the decoded
\* value: a number, bool or None is not iterable, a list or str takes no
\* string index, so every value that is not a dict ends in TypeError
RaisesTypeError(v) == v.kind # "obj"

\* str(e) of that TypeError: a list fails at the first item assignment with a
\* string index, a str at the item assignment, anything else at `in`
TypeErrorText(v) ==
    CASE v.kind = "arr" -> "list indices must be integers or slices, not str"
      [] v.kind = "str" -> "'str' object does not support item assignment"
      [] v.kind = "num" -> "argument of type 'int' is not iterable"
      [] v.kind = "bool" -> "argument of type 'bool' is not iterable"
      [] OTHER -> "argument of type 'NoneType' is not iterable"

\* max(15, min(20, total_words // 600)) and max(16, min(22, total_words // 500))
EstimatedPagesLow(total_words) == Clamp(15, 20, total_words \div 600)

\* the upper estimate with the cap of the lower one
EstimatedPagesHigh_CappedAt20(total_words) == Clamp(16, 20, total_words \div 500)

EstimatedPagesHigh(total_words) == Clamp(16, 22, total_words \div 500)

\* f"{low}-{high}"
EstimatedPages(total_words) ==
    StrV(<<ToString(EstimatedPagesLow(total_words)), "-",
           ToString(EstimatedPagesHigh(total_words))>>)

\* the success path with the bookkeeping written first and the document
\* written over it
SuccessResult_DocumentWins(members) ==
    [Result("success", "", MsgSuccess) EXCEPT
        !.data = DictUpdate(<< Member(<<"status">>, StrV(<<"success">>)),
                               Member(<<"message">>,
                                      StrV(<<"Proposal", SP, "generated", SP, "successfully">>)),
                               Member(<<"generated_at">>, StrV(<<"isoformat">>)),
                               Member(<<"actual_word_count">>,
                                      NumV(<<ToString(TotalWords(members))>>)),
                               Member(<<"estimated_pages">>,
                                      EstimatedPages(TotalWords(members))) >>, members),
        !.missing_fields = MissingFields(members),
        !.actual_word_count = TotalWords(members),
        !.pages_low = EstimatedPagesLow(TotalWords(members)),
        !.pages_high = EstimatedPagesHigh(TotalWords(members))]

\* the success path on a decoded dict
SuccessResult(members) ==
    LET missing == MissingFields(members)
        warned == IF missing # <<>>
                  THEN DictSet(members, <<"_warnings">>,
                         ObjV(<<Member(<<"missing_fields">>,
                                       ArrV([i \in 1..Len(missing) |-> StrV(missing[i])])),
                                Member(<<"message">>,
                                       StrV(<<"Some", SP, "required", SP, "sections", SP,
                                              "are", SP, "missing", SP, "from", SP, "the",
                                              SP, "generated", SP, "proposal">>))>>))
                  ELSE members
        stamped == DictSet(DictSet(DictSet(warned,
                       <<"status">>, StrV(<<"success">>)),
                       <<"message">>, StrV(<<"Proposal", SP, "generated", SP, "successfully">>)),
                       <<"generated_at">>, StrV(<<"isoformat">>))
        total_words == TotalWords(stamped)
        low == EstimatedPagesLow(total_words)
        high == EstimatedPagesHigh(total_words)
        counted == DictSet(DictSet(stamped,
                       <<"actual_word_count">>, NumV(<<ToString(total_words)>>)),
                       <<"estimated_pages">>, EstimatedPages(total_words))
    IN  [Result("success", "", MsgSuccess) EXCEPT
            !.data = counted, !.missing_fields = missing,
            !.actual_word_count = total_words, !.pages_low = low, !.pages_high = high]

----------------------------------------------------------------------------
(* The state machine: one call of generate_proposal *)

NoParse == [tag |-> "none", val |-> NullV, strategy |-> 0]
Returned(v, k) == [tag |-> "ok", val |-> v, strategy |-> k]
Raised == [tag |-> "raise", val |-> NullV, strategy |-> 0]

\* what the call to the model may raise, and with what message
TransportErrors == {"ClientError", "ServerError", "ConnectError"}
ErrorTexts == {"429 RESOURCE_EXHAUSTED"}

MsgNoText == "'NoneType' object has no attribute 'strip'"

\* the locals of one generate_proposal call before its first statement
CallInit ==
    /\ model_call = "none"
    /\ response = NoCase
    /\ report_text = <<>>
    /\ parsed = NoParse
    /\ exc = NoExc
    /\ result = NoResult
    /\ tried = <<>>
    /\ calls = 0
    /\ fixed = NoCandidate
    /\ found_objects = <<>>

\* client.models.generate_content raises
GenerateContentRaises ==
    /\ pc = "start"
    /\ \E e \in TransportErrors, m \in ErrorTexts : exc' = Exc(e, m)
    /\ model_call' = "raised"
    /\ calls' = calls + 1
    /\ pc' = "except"
    /\ UNCHANGED <<response, report_text, parsed, result, tried, fixed, found_objects>>
    /\ UNCHANGED app_vars

\* the model answers without text: response.text is None and .strip() raises
GenerateContentNoText ==
    /\ pc = "start"
    /\ exc' = Exc("AttributeError", MsgNoText)
    /\ model_call' = "no_text"
    /\ calls' = calls + 1
    /\ pc' = "except"
    /\ UNCHANGED <<response, report_text, parsed, result, tried, fixed, found_objects>>
    /\ UNCHANGED app_vars

\* the model answers with one of `texts`: report_text = response.text.strip()
GenerateContentAnswers(texts) ==
    /\ pc = "start"
    /\ \E r \in texts :
        /\ response' = r
        /\ report_text' = Strip(r.text)
    /\ model_call' = "returned"
    /\ calls' = calls + 1
    /\ pc' = "s1"
    /\ UNCHANGED <<parsed, exc, result, tried, fixed, found_objects>>
    /\ UNCHANGED app_vars

GenerateContentReturns == GenerateContentAnswers(Responses)

\* one strategy of _parse_json_safely: return its value, or go on to `next`
Try(here, k, r, next) ==
    /\ pc = here
    /\ tried' = Append(tried, k)
    /\ IF r.ok
       THEN parsed' = Returned(r.val, k) /\ pc' = "post"
       ELSE parsed' = parsed /\ pc' = next
    /\ UNCHANGED <<model_call, response, report_text, exc, result, calls, fixed, found_objects>>
    /\ UNCHANGED app_vars

Strategy1 == Try("s1", 1, Strategy1Result(report_text), "s2")

\* strategy 2 going on to strategy 4 when it fails
Strategy2_SkipsNewlines == Try("s2", 2, Strategy2Result(report_text), "s4")

Strategy2 == Try("s2", 2, Strategy2Result(report_text), "s3")
Strategy3 == Try("s3", 3, Strategy3Result(report_text), "s4")

\* strategy 4: `fixed` is built only when a count is positive
Strategy4 ==
    /\ pc = "s4"
    /\ tried' = Append(tried, 4)
    /\ fixed' = TruncationCandidate(CleanJsonString(report_text),
                                    CountUnclosed(CleanJsonString(report_text)))
    /\ LET r == Strategy4Result(report_text)
       IN  IF r.ok
           THEN parsed' = Returned(r.val, 4) /\ pc' = "post"
           ELSE parsed' = parsed /\ pc' = "s5"
    /\ UNCHANGED <<model_call, response, report_text, exc, result, calls, found_objects>>
    /\ UNCHANGED app_vars

\* the last strategy: its value, or ValueError("All JSON parsing strategies failed")
Strategy5 ==
    /\ pc = "s5"
    /\ tried' = Append(tried, 5)
    /\ found_objects' = SplitObjects(CleanJsonString(report_text))
    /\ LET r == Strategy5Result(report_text)
       IN  parsed' = IF r.ok THEN Returned(r.val, 5) ELSE Raised
    /\ pc' = "post"
    /\ UNCHANGED <<model_call, response, report_text, exc, result, calls, fixed>>
    /\ UNCHANGED app_vars

\* the inner handler catching json.JSONDecodeError only: the ValueError of the
\* cascade passes it and reaches the outer handler
HandleValueError_DecodeErrorOnly ==
    /\ pc = "post"
    /\ parsed.tag = "raise"
    /\ exc' = Exc("ValueError", "All JSON parsing strategies failed")
    /\ pc' = "except"
    /\ UNCHANGED <<model_call, response, report_text, parsed, result, tried, calls,
                   fixed, found_objects>>
    /\ UNCHANGED app_vars

\* except ValueError: the json_parse_error result
HandleValueError ==
    /\ pc = "post"
    /\ parsed.tag = "raise"
    /\ result' = ParseErrorResult(report_text)
    /\ pc' = "done"
    /\ UNCHANGED <<model_call, response, report_text, parsed, exc, tried, calls,
                   fixed, found_objects>>
    /\ UNCHANGED app_vars

\* after a successful decode: required fields, metadata, word count
BuildProposal ==
    /\ pc = "post"
    /\ parsed.tag = "ok"
    /\ IF RaisesTypeError(parsed.val)
       THEN /\ exc' = Exc("TypeError", TypeErrorText(parsed.val))
            /\ pc' = "except"
            /\ result' = result
       ELSE exc' = exc /\ pc' = "done" /\ result' = SuccessResult(parsed.val.members)
    /\ UNCHANGED <<model_call, response, report_text, parsed, tried, calls, fixed, found_objects>>
    /\ UNCHANGED app_vars

\* the outer handler going back to the model call
HandleException_Retries ==
    /\ pc = "except"
    /\ pc' = "start"
    /\ UNCHANGED <<model_call, response, report_text, parsed, exc, result, tried, calls,
                   fixed, found_objects>>
    /\ UNCHANGED app_vars

\* except Exception: the outer handler of generate_proposal
HandleException ==
    /\ pc = "except"
    /\ result' = ExceptionResult(exc)
    /\ pc' = "done"
    /\ UNCHANGED <<model_call, response, report_text, parsed, exc, tried, calls,
                   fixed, found_objects>>
    /\ UNCHANGED app_vars

----------------------------------------------------------------------------
(* pdf_router: get_gemini_service, analyze_tender_document, health_check   *)

HTTP_200_OK == 200
HTTP_400_BAD_REQUEST == 400
HTTP_413_REQUEST_ENTITY_TOO_LARGE == 413
HTTP_500_INTERNAL_SERVER_ERROR == 500
HTTP_503_SERVICE_UNAVAILABLE == 503

\* total_pdfs > 7 is refused
MaxTotalPdfs == 7

\* the most supporting documents one request uploads
MaxUploaded == 7

\* the most requests to /pdf/health
MaxHealthChecks == 1

Reqs == {"r1", "r2"}
NoReq == "none"

\* One request to /pdf/analyze.  What the upload holds is found out as the
\* handler looks at it: "?" is a check the handler has not reached.  The
\* handler's locals are forgotten once generate_proposal has returned.
\*   docs         len(all_supporting_docs)
\*   tender_pdf   tender_file.content_type == "application/pdf"
\*   docs_pdf     every supporting document has that content type
\*   tender_small len(tender_bytes) <= MAX_FILE_SIZE
\*   tender_magic tender_bytes.startswith(b'%PDF-')
\*   docs_small   every len(doc['bytes']) <= MAX_FILE_SIZE
\*   status, error, body   the answer: status code, detail["error"] of an
\*                HTTPException, content of a JSONResponse
\*   service      the object get_gemini_service returned (0: none)
\*   calls        how often the handler's generate_proposal called the model
\*   tender_closed  tender_file.close() has returned
\*   docs_open    a supporting document the loop has taken up is not closed
NewRequest ==
    [stage |-> "new", docs |-> 0, tender_pdf |-> "?", docs_pdf |-> "?",
     tender_small |-> "?", tender_magic |-> "?", docs_small |-> "?",
     status |-> 0, error |-> "", body |-> NoResult, service |-> 0, calls |-> 0,
     text |-> <<>>, outcome |-> NoParse, tender_closed |-> FALSE, docs_open |-> FALSE]

NoHealth == [count |-> 0, status |-> 0, service |-> 0]

YesNo(b) == IF b THEN "yes" ELSE "no"

\* raise HTTPException before the try statement: the handler is left at once
RaiseOutsideTry(rec, status, error) ==
    [rec EXCEPT !.stage = "finished", !.status = status, !.error = error]

\* raise HTTPException inside the try statement: `except HTTPException: raise`
\* hands it on, and the finally clause awaits tender_file.close() first
RaiseInsideTry(rec, status, error) ==
    [rec EXCEPT !.stage = "close_tender", !.status = status, !.error = error]

\* get_gemini_service without the test `gemini_service is None`
GetGeminiService_NoNoneCheck ==
    [raises |-> ~api_key,
     service |-> IF ~api_key THEN gemini_service ELSE constructed + 1,
     constructed |-> IF ~api_key THEN constructed ELSE constructed + 1]

\* get_gemini_service: what it raises or returns, and the global after it
GetGeminiService ==
    IF gemini_service = 0
    THEN [raises |-> ~api_key,
          service |-> IF ~api_key THEN 0 ELSE constructed + 1,
          constructed |-> IF ~api_key THEN constructed ELSE constructed + 1]
    ELSE [raises |-> FALSE, service |-> gemini_service, constructed |-> constructed]

\* the head of `for doc in supporting_documents` with a document at hand:
\* its content type is tested, then the handler awaits doc.read()
NextDoc(r, rec) ==
    \E pdf \in BOOLEAN :
        req' = [req EXCEPT ![r] =
                  IF pdf THEN [rec EXCEPT !.stage = "read_doc", !.docs_open = TRUE]
                  ELSE RaiseOutsideTry([rec EXCEPT !.docs_pdf = "no", !.docs_open = TRUE],
                          HTTP_400_BAD_REQUEST,
                          "Invalid file type in supporting documents")]

\* the handler starts: the tender's content type, then the first document
Arrive(r) ==
    /\ active = NoReq
    /\ req[r].stage = "new"
    /\ \E pdf \in BOOLEAN, with_docs \in BOOLEAN :
        IF ~pdf
        THEN req' = [req EXCEPT ![r] =
                       RaiseOutsideTry([req[r] EXCEPT !.tender_pdf = "no"],
                          HTTP_400_BAD_REQUEST, "Invalid file type for main tender")]
        ELSE IF with_docs
        THEN NextDoc(r, [req[r] EXCEPT !.tender_pdf = "yes"])
        ELSE req' = [req EXCEPT ![r] =
                       [req[r] EXCEPT !.tender_pdf = "yes", !.stage = "read_tender"]]
    /\ UNCHANGED <<api_key, gemini_service, constructed, active, health>>
    /\ UNCHANGED <<pc, call_vars>>

\* doc.read() returned: the document is appended, then the next document is
\* tested or, after the last one, the handler awaits doc.close()
AfterDocRead(r) ==
    /\ active = NoReq
    /\ req[r].stage = "read_doc"
    /\ \E more \in BOOLEAN :
        LET rec == [req[r] EXCEPT !.docs = @ + 1]
        IN  IF more /\ rec.docs < MaxUploaded
            THEN NextDoc(r, rec)
            ELSE req' = [req EXCEPT ![r] =
                           [rec EXCEPT !.docs_pdf = "yes", !.stage = "close_doc"]]
    /\ UNCHANGED <<api_key, gemini_service, constructed, active, health>>
    /\ UNCHANGED <<pc, call_vars>>

\* `await doc.close()` stands after the loop: it closes the document the loop
\* variable is left on, the last one
CloseDoc(rec) == [rec EXCEPT !.docs_open = rec.docs > 1]

\* the handler without the test of total_pdfs
AfterDocClose_NoCount(r) ==
    /\ active = NoReq
    /\ req[r].stage = "close_doc"
    /\ req' = [req EXCEPT ![r] = [req[r] EXCEPT !.stage = "read_tender",
                                                !.docs_open = req[r].docs > 1]]
    /\ UNCHANGED <<api_key, gemini_service, constructed, active, health>>
    /\ UNCHANGED <<pc, call_vars>>

\* doc.close() returned: the number of PDFs is tested, then the handler
\* enters the try statement and awaits tender_file.read()
AfterDocClose(r) ==
    /\ active = NoReq
    /\ req[r].stage = "close_doc"
    /\ req' = [req EXCEPT ![r] =
                 IF 1 + req[r].docs > MaxTotalPdfs
                 THEN RaiseOutsideTry(CloseDoc(req[r]), HTTP_400_BAD_REQUEST,
                                      "Too many documents")
                 ELSE [CloseDoc(req[r]) EXCEPT !.stage = "read_tender"]]
    /\ UNCHANGED <<api_key, gemini_service, constructed, active, health>>
    /\ UNCHANGED <<pc, call_vars>>

\* tender_file.read() returned: the size and format tests, get_gemini_service
\* and the call of generate_proposal
AfterTenderRead(r) ==
    /\ active = NoReq
    /\ req[r].stage = "read_tender"
    /\ \E small \in BOOLEAN, magic \in BOOLEAN, docs_small \in BOOLEAN :
        LET rec == [req[r] EXCEPT
                      !.tender_small = YesNo(small),
                      !.tender_magic = IF small THEN YesNo(magic) ELSE "?",
                      !.docs_small = IF small /\ magic /\ req[r].docs > 0
                                     THEN YesNo(docs_small) ELSE "?"]
            got == GetGeminiService
        IN  IF ~small
            THEN /\ req' = [req EXCEPT ![r] =
                     RaiseInsideTry(rec, HTTP_413_REQUEST_ENTITY_TOO_LARGE,
                                    "Tender file too large")]
                 /\ UNCHANGED <<gemini_service, constructed, active, pc>>
            ELSE IF ~magic
            THEN /\ req' = [req EXCEPT ![r] =
                     RaiseInsideTry(rec, HTTP_400_BAD_REQUEST, "Invalid PDF format")]
                 /\ UNCHANGED <<gemini_service, constructed, active, pc>>
            ELSE IF rec.docs_small = "no"
            THEN /\ req' = [req EXCEPT ![r] =
                     RaiseInsideTry(rec, HTTP_413_REQUEST_ENTITY_TOO_LARGE,
                                    "Supporting document too large")]
                 /\ UNCHANGED <<gemini_service, constructed, active, pc>>
            ELSE IF got.raises
            THEN /\ req' = [req EXCEPT ![r] =
                     RaiseInsideTry(rec, HTTP_500_INTERNAL_SERVER_ERROR,
                                    "GEMINI_API_KEY not configured")]
                 /\ UNCHANGED <<gemini_service, constructed, active, pc>>
            ELSE /\ req' = [req EXCEPT ![r] =
                     [rec EXCEPT !.stage = "generate", !.service = got.service]]
                 /\ gemini_service' = got.service
                 /\ constructed' = got.constructed
                 /\ active' = r
                 /\ pc' = "start"
    /\ UNCHANGED <<api_key, health>>
    /\ UNCHANGED call_vars

\* json.dumps(content, allow_nan=False) of JSONResponse refuses these
RECURSIVE HasNaN(_), AnyNaN(_)
HasNaN(v) ==
    CASE v.kind = "num" -> \E l \in Literals : l.val = v
      [] v.kind = "arr" -> AnyNaN(v.items)
      [] v.kind = "obj" -> AnyNaN([i \in 1..Len(v.members) |-> v.members[i].v])
      [] OTHER -> FALSE

AnyNaN(items) == items # <<>> /\ (HasNaN(Head(items)) \/ AnyNaN(Tail(items)))

\* the answer after generate_proposal: a JSONResponse with `body`, or the
\* HTTPException of `except Exception`; then the finally clause.  The text
\* the call decoded and what the cascade made of it are kept with the request,
\* so that the runs of different requests can be compared.
Answer(rec, status, error, body) ==
    [NewRequest EXCEPT !.stage = "close_tender", !.status = status, !.error = error,
                       !.body = body, !.service = rec.service, !.calls = calls,
                       !.text = report_text, !.outcome = parsed,
                       !.docs_open = rec.docs_open]

\* the status code without the test of proposal.get("status")
ProposalStatus_Always200(proposal) == HTTP_200_OK

\* if proposal.get("status") == "error": 500, else 200
ProposalStatus(proposal) ==
    IF proposal.status = "error" THEN HTTP_500_INTERNAL_SERVER_ERROR ELSE HTTP_200_OK

\* generate_proposal returned: status 500 for a result with status "error",
\* 200 otherwise; a result JSONResponse cannot render raises ValueError, which
\* `except Exception` turns into HTTPException 500
Respond(r) ==
    /\ active = r
    /\ pc = "done"
    /\ req' = [req EXCEPT ![r] =
                 IF HasNaN(ObjV(result.data))
                 THEN Answer(req[r], HTTP_500_INTERNAL_SERVER_ERROR, "Processing failed",
                             NoResult)
                 ELSE Answer(req[r], ProposalStatus(result), "", result)]
    /\ active' = NoReq
    /\ pc' = "idle"
    /\ model_call' = "none"
    /\ response' = NoCase
    /\ report_text' = <<>>
    /\ parsed' = NoParse
    /\ exc' = NoExc
    /\ result' = NoResult
    /\ tried' = <<>>
    /\ calls' = 0
    /\ fixed' = NoCandidate
    /\ found_objects' = <<>>
    /\ UNCHANGED <<api_key, gemini_service, constructed, health>>

\* finally: tender_file.close() returned, the answer leaves the handler
AfterTenderClose(r) ==
    /\ active = NoReq
    /\ req[r].stage = "close_tender"
    /\ req' = [req EXCEPT ![r] = [req[r] EXCEPT !.stage = "finished",
                                                !.tender_closed = TRUE]]
    /\ UNCHANGED <<api_key, gemini_service, constructed, active, health>>
    /\ UNCHANGED <<pc, call_vars>>

\* health_check: 200 with the service, 503 when get_gemini_service raises
HealthCheck ==
    /\ active = NoReq
    /\ health.count < MaxHealthChecks
    /\ LET got == GetGeminiService
       IN  /\ health' = [count |-> health.count + 1,
                         status |-> IF got.raises THEN HTTP_503_SERVICE_UNAVAILABLE
                                    ELSE HTTP_200_OK,
                         service |-> IF got.raises THEN 0 ELSE got.service]
           /\ gemini_service' = got.service
           /\ constructed' = got.constructed
    /\ UNCHANGED <<api_key, req, active>>
    /\ UNCHANGED <<pc, call_vars>>

----------------------------------------------------------------------------
(* The state machine: one call of generate_proposal on a service object    *)

Init ==
    /\ pc = "start"
    /\ CallInit
    /\ api_key = TRUE
    /\ gemini_service = 1
    /\ constructed = 1
    /\ req = [r \in Reqs |-> NewRequest]
    /\ active = NoReq
    /\ health = NoHealth

Next ==
    \/ GenerateContentRaises
    \/ GenerateContentNoText
    \/ GenerateContentReturns
    \/ Strategy1
    \/ Strategy2
    \/ Strategy3
    \/ Strategy4
    \/ Strategy5
    \/ HandleValueError
    \/ BuildProposal
    \/ HandleException

Spec == Init /\ [][Next]_vars

----------------------------------------------------------------------------
(* The state machine: the application serving requests to /pdf/analyze and *)
(* /pdf/health.  The handlers are coroutines on one event loop: a handler  *)
(* runs alone from one await to the next, and generate_proposal, a plain   *)
(* function called by the handler, holds the loop until it returns.        *)

\* the model answers a request of the application
ServiceAnswers == GenerateContentAnswers(ServiceResponses)

ServiceInit ==
    /\ pc = "idle"
    /\ CallInit
    /\ api_key \in BOOLEAN
    /\ gemini_service = 0
    /\ constructed = 0
    /\ req = [r \in Reqs |-> NewRequest]
    /\ active = NoReq
    /\ health = NoHealth

ServiceNext ==
    \/ \E r \in Reqs : Arrive(r)
    \/ \E r \in Reqs : AfterDocRead(r)
    \/ \E r \in Reqs : AfterDocClose(r)
    \/ \E r \in Reqs : AfterTenderRead(r)
    \/ \E r \in Reqs : Respond(r)
    \/ \E r \in Reqs : AfterTenderClose(r)
    \/ HealthCheck
    \/ GenerateContentRaises
    \/ GenerateContentNoText
    \/ ServiceAnswers
    \/ Strategy1
    \/ Strategy2
    \/ Strategy3
    \/ Strategy4
    \/ Strategy5
    \/ HandleValueError
    \/ BuildProposal
    \/ HandleException

ServiceSpec == ServiceInit /\ [][ServiceNext]_vars

----------------------------------------------------------------------------
(* The state machine: generate_proposal on documents of any length.  Next  *)
(* to the calls of Spec, whose documents hold a few words, there are calls *)
(* taken up behind the word count, with any total in WordTotals.           *)

\* proposal_data["actual_word_count"] = total_words has been executed
AfterWordCount ==
    /\ pc = "pages"
    /\ model_call = "none"
    /\ response = NoCase
    /\ report_text = <<>>
    /\ parsed = NoParse
    /\ exc = NoExc
    /\ \E total_words \in WordTotals :
        result = [Result("success", "", MsgSuccess) EXCEPT
                    !.data = <<Member(<<"actual_word_count">>,
                                      NumV(<<ToString(total_words)>>))>>,
                    !.actual_word_count = total_words]
    /\ tried = <<>>
    /\ calls = 0
    /\ fixed = NoCandidate
    /\ found_objects = <<>>
    /\ api_key = TRUE
    /\ gemini_service = 1
    /\ constructed = 1
    /\ req = [r \in Reqs |-> NewRequest]
    /\ active = NoReq
    /\ health = NoHealth

\* proposal_data["estimated_pages"] = f"{max(...)}-{max(...)}"
EstimatePages ==
    /\ pc = "pages"
    /\ result' = [result EXCEPT
                    !.data = DictSet(@, <<"estimated_pages">>,
                                     EstimatedPages(result.actual_word_count)),
                    !.pages_low = EstimatedPagesLow(result.actual_word_count),
                    !.pages_high = EstimatedPagesHigh(result.actual_word_count)]
    /\ pc' = "done"
    /\ UNCHANGED <<model_call, response, report_text, parsed, exc, tried, calls,
                   fixed, found_objects>>
    /\ UNCHANGED app_vars

PagesInit == Init \/ AfterWordCount

PagesNext == Next \/ EstimatePages

PagesSpec == PagesInit /\ [][PagesNext]_vars

----------------------------------------------------------------------------
(* Properties *)

Decoded == pc \in {"post", "done"} /\ model_call = "returned"

OpenBraces(t) == NetOpen(t, "{", "}", FALSE)
OpenBrackets(t) == NetOpen(t, "[", "]", FALSE)

\* C1: a text that is a strict valid JSON object is decoded by strategy 1 to
\* the very object it spells; no later strategy is entered.
C1_DirectParseWins ==
    response.family = "valid" =>
        /\ pc \in {"s1", "post", "done"}
        /\ pc # "s1" => parsed = Returned(response.doc, 1)

C1_Witness ==
    /\ response.family = "valid"
    /\ pc = "done"
    /\ parsed = Returned(response.doc, 1)
    /\ Len(response.doc.members) = 2

\* C2: an object cut off with two more '{' than '}' and one more '[' than ']'
\* outside string literals is decoded to the object with its containers closed.
C2_TruncationRecovered ==
    ( /\ response.family = "truncated"
      /\ OpenBraces(response.text) = 2
      /\ OpenBrackets(response.text) = 1
      /\ Decoded )
    => (parsed.tag = "ok" /\ parsed.val = response.doc)

\* C3: two valid objects written back to back are decoded to one mapping that
\* holds the keys of both, the second object's value winning on a shared key.
C3_PairMerged ==
    (response.family = "pair" /\ Decoded) =>
        /\ parsed.tag = "ok"
        /\ parsed.val.kind = "obj"
        /\ DictKeys(parsed.val.members)
             = DictKeys(response.doc.members) \cup DictKeys(response.doc2.members)
        /\ \A k \in DictKeys(parsed.val.members) :
             DictGet(parsed.val.members, k) =
                IF k \in DictKeys(response.doc2.members)
                THEN DictGet(response.doc2.members, k)
                ELSE DictGet(response.doc.members, k)

\* C4: an object that is valid except for a raw newline inside one string value
\* is decoded to that object, the newline kept in the string where it stood.
C4_RawNewlineRecovered ==
    (response.family = "newline" /\ Decoded) =>
        (parsed.tag = "ok" /\ parsed.val = response.doc)

C4_Witness ==
    /\ response.family = "newline"
    /\ pc = "done"
    /\ parsed = Returned(response.doc, 3)
    /\ response.doc = ObjV(<<Member(<<"a">>, StrV(<<"x", LF, "y">>))>>)
    /\ result.status = "success"

\* C5: an object with text before and/or after it that holds no brace is
\* decoded to exactly that object.
C5_ProseStripped ==
    (response.family = "prose" /\ Decoded) =>
        (parsed.tag = "ok" /\ parsed.val = response.doc)

\* C6: an object between a leading ```json fence line and a trailing ``` fence
\* is decoded to that object.
C6_FencedRecovered ==
    (response.family = "fenced" /\ Decoded) =>
        (parsed.tag = "ok" /\ parsed.val = response.doc)

C6_Witness ==
    /\ response.family = "fenced"
    /\ pc = "done"
    /\ parsed = Returned(response.doc, 2)
    /\ Len(response.doc.members) = 2
    /\ response.doc.members[1].v.kind = "obj"
    /\ result.status = "success"

\* C7: a text without any '{' ends in the json_parse_error result whose
\* starts_with is the first 100 characters of the text.
C7_NoBraceFails ==
    (pc = "done" /\ model_call = "returned" /\ Find(report_text, "{") = -1) =>
        /\ result.status = "error"
        /\ result.error_type = "json_parse_error"
        /\ result.starts_with = Prefix(report_text, StartsWithLen)

\* C8: whatever strategy returns, the value returned is a mapping.
C8_ReturnsMapping == parsed.tag = "ok" => parsed.val.kind = "obj"

\* C9: generate_proposal ends by returning a result dict, success or error;
\* the ValueError of the decode cascade is caught where it is raised, never
\* travels on as an exception, and is returned as the json_parse_error result.
C9_DecodeFailureIsTyped ==
    /\ pc = "done" => result.status \in {"success", "error"}
    /\ (pc = "done" /\ parsed.tag = "raise") =>
          (result.status = "error" /\ result.error_type = "json_parse_error")
    /\ pc = "except" => parsed.tag # "raise"

C9_Witness ==
    /\ pc = "done"
    /\ parsed.tag = "raise"
    /\ report_text # <<>>
    /\ result = ParseErrorResult(report_text)

\* C10: the result of the outer handler (error_type a class name, message
\* "Error generating proposal: ...") is returned only when the model call
\* raised; an error after the model returned text is a json_parse_error.
C10_FailureClassesDistinct ==
    (pc = "done" /\ result.status = "error" /\ model_call \in {"raised", "returned"}) =>
        /\ result.message = MsgGenerating => model_call = "raised"
        /\ model_call = "returned" => result.error_type = "json_parse_error"

\* what strategy k yields on a text
StrategyResult(k, text) ==
    CASE k = 1 -> Strategy1Result(text)
      [] k = 2 -> Strategy2Result(text)
      [] k = 3 -> Strategy3Result(text)
      [] k = 4 -> Strategy4Result(text)
      [] OTHER -> Strategy5Result(text)

\* C11: the strategies are entered in the order 1, 2, 3, 4, 5, none skipped and
\* none twice; a value returned by strategy k means that strategies 1..k-1
\* yield nothing on the same text and that strategy k is the last one entered;
\* the cascade raises only after all five were entered and yielded nothing.
C11_FixedOrder ==
    /\ Len(tried) <= 5
    /\ \A i \in 1..Len(tried) : tried[i] = i
    /\ parsed.tag = "ok" =>
          /\ Len(tried) = parsed.strategy
          /\ \A j \in 1..(parsed.strategy - 1) : ~StrategyResult(j, report_text).ok
          /\ StrategyResult(parsed.strategy, report_text).ok
          /\ StrategyResult(parsed.strategy, report_text).val = parsed.val
    /\ parsed.tag = "raise" =>
          /\ Len(tried) = 5
          /\ \A j \in 1..5 : ~StrategyResult(j, report_text).ok

C11_Witness ==
    /\ pc = "done"
    /\ parsed.tag = "ok"
    /\ parsed.strategy = 4
    /\ tried = <<1, 2, 3, 4>>
    /\ result.status = "success"

\* C12: _clean_json_string applied to its own output gives that output again,
\* for every text, texts with any number of fence markers included.
C12_NormalizeIdempotent ==
    model_call = "returned" =>
        CleanJsonString(CleanJsonString(response.text)) = CleanJsonString(response.text)

\* C13: in every error result starts_with and ends_with are at most 100
\* characters and raw_response at most 2000, each a prefix or suffix of the
\* response text, however long that text is.
C13_DiagnosticBounded ==
    (pc = "done" /\ result.status = "error") =>
        /\ Len(result.starts_with) <= StartsWithLen
        /\ Len(result.ends_with) <= EndsWithLen
        /\ Len(result.raw_response) <= RawResponseLen
        /\ SubSeq(report_text, 1, Len(result.starts_with)) = result.starts_with
        /\ SubSeq(report_text, 1, Len(result.raw_response)) = result.raw_response
        /\ SubSeq(report_text, Len(report_text) - Len(result.ends_with) + 1,
                  Len(report_text)) = result.ends_with

C13_Witness ==
    /\ pc = "done"
    /\ result.error_type = "json_parse_error"
    /\ Len(report_text) = RawResponseLen + 1
    /\ Len(result.raw_response) = RawResponseLen
    /\ Len(result.starts_with) = StartsWithLen
    /\ Len(result.ends_with) = EndsWithLen
    /\ result.ends_with[EndsWithLen] = "z"

\* the step in which the handler of request r gets the result of generate_proposal
Responds(r) == active = r /\ active' = NoReq

\* C14: when generate_proposal gives the result of a decode failure, the
\* request is answered with status 500 and that result as its body: error kind
\* json_parse_error, the message, the excerpt of at most 2000 characters and
\* the suggestion; and a request is answered 200 only with a result whose
\* status is not "error".
C14_DecodeFailureIs500 ==
    /\ [][\A r \in Reqs : Responds(r) =>
            /\ parsed.tag = "raise" =>
                  /\ req'[r].status = HTTP_500_INTERNAL_SERVER_ERROR
                  /\ req'[r].body = result
                  /\ result.error_type = "json_parse_error"
                  /\ result.message = MsgParseFailed
                  /\ result.suggestion = MsgSuggestion
                  /\ result.raw_response = SubSeq(report_text, 1, Len(result.raw_response))
                  /\ Len(result.raw_response) <= RawResponseLen
            /\ req'[r].status = HTTP_200_OK => result.status # "error"
            /\ result.status = "error" => req'[r].status >= 500]_vars
    /\ [](\A r \in Reqs : req[r].status = HTTP_200_OK => req[r].body.status = "success")

C14_Witness ==
    \E r \in Reqs :
        /\ req[r].stage = "finished"
        /\ req[r].status = HTTP_500_INTERNAL_SERVER_ERROR
        /\ req[r].body.error_type = "json_parse_error"
        /\ req[r].body.suggestion = MsgSuggestion
        /\ Len(req[r].body.raw_response) > StartsWithLen
        /\ \E q \in Reqs : req[q].status = HTTP_200_OK

\* C15: one invocation of generate_proposal calls the model at most once; when
\* the call raised, the result is an error with the exception's class name as
\* error_type and its text in the message, and the model was called once; when
\* decoding failed, the model was called once too.
C15_ModelCalledOnce ==
    /\ calls <= 1
    /\ (pc = "done" /\ model_call = "raised") =>
          /\ calls = 1
          /\ result.status = "error"
          /\ result.error_type = exc.type
          /\ exc.type \in TransportErrors
          /\ result.message = MsgGenerating
          /\ result.error_text = exc.msg
          /\ exc.msg \in ErrorTexts
    /\ (pc = "done" /\ parsed.tag = "raise") => calls = 1

C15_Witness ==
    /\ pc = "done"
    /\ model_call = "raised"
    /\ calls = 1
    /\ result.error_type = "ServerError"
    /\ result.error_text = "429 RESOURCE_EXHAUSTED"

\* C16: at most one GeminiPDFService is ever constructed; once it is, the global
\* holds it and every call of get_gemini_service, from either handler, returned
\* it; without the API key nothing is constructed, the global stays None, a
\* request to /pdf/analyze that reaches get_gemini_service gets HTTP 500 and
\* /pdf/health answers 503.
C16_LazySingleton ==
    /\ constructed <= 1
    /\ gemini_service = constructed
    /\ \A r \in Reqs : req[r].service \in {0, gemini_service}
    /\ health.service \in {0, gemini_service}
    /\ \A r \in Reqs : req[r].stage = "generate" => req[r].service = 1
    /\ (health.count > 0 /\ api_key) => (health.service = 1 /\ health.status = HTTP_200_OK)
    /\ ~api_key =>
          /\ gemini_service = 0
          /\ \A r \in Reqs :
                /\ req[r].service = 0
                /\ req[r].stage # "generate"
                /\ req[r].status \notin {0, HTTP_400_BAD_REQUEST,
                                         HTTP_413_REQUEST_ENTITY_TOO_LARGE} =>
                      /\ req[r].status = HTTP_500_INTERNAL_SERVER_ERROR
                      /\ req[r].error = "GEMINI_API_KEY not configured"
          /\ health.count > 0 => (health.service = 0 /\ health.status = HTTP_503_SERVICE_UNAVAILABLE)

C16_Witness ==
    /\ constructed = 1
    /\ \A r \in Reqs : req[r].stage = "finished" /\ req[r].service = 1
    /\ health.count = MaxHealthChecks
    /\ health.service = 1

C16_WitnessNoKey ==
    /\ ~api_key
    /\ \E r \in Reqs : req[r].stage = "finished"
                       /\ req[r].error = "GEMINI_API_KEY not configured"
    /\ health.status = HTTP_503_SERVICE_UNAVAILABLE

\* the upload of a request passed every check the handler makes
PassedChecks(q) ==
    /\ q.tender_pdf = "yes"
    /\ 1 + q.docs <= MaxTotalPdfs
    /\ q.tender_small = "yes"
    /\ q.tender_magic = "yes"
    /\ IF q.docs = 0 THEN q.docs_pdf = "?" /\ q.docs_small = "?"
       ELSE q.docs_pdf = "yes" /\ q.docs_small = "yes"

\* C17: generate_proposal runs, and the model is called, only for a request
\* whose upload passed every check: content types, at most 7 PDFs, sizes, the
\* %PDF- start of the tender; a request failing a check is answered 400, or 413
\* for a size, exactly as raised, and calls no model.
C17_ChecksBeforeModel ==
    /\ pc # "idle" => active \in Reqs
    /\ \A r \in Reqs :
        /\ active = r <=> req[r].stage = "generate"
        /\ req[r].stage = "generate" => PassedChecks(req[r])
        /\ req[r].calls > 0 =>
              /\ req[r].stage \in {"close_tender", "finished"}
              /\ req[r].error \in {"", "Processing failed"}
        /\ (req[r].tender_pdf = "no" \/ req[r].docs_pdf = "no" \/ req[r].tender_magic = "no") =>
              /\ req[r].status = HTTP_400_BAD_REQUEST
              /\ req[r].calls = 0
              /\ req[r].service = 0
        /\ (1 + req[r].docs > MaxTotalPdfs /\ req[r].stage \notin {"read_doc", "close_doc"}) =>
              /\ req[r].status = HTTP_400_BAD_REQUEST
              /\ req[r].stage = "finished"
              /\ req[r].calls = 0
        /\ (req[r].tender_small = "no" \/ req[r].docs_small = "no") =>
              /\ req[r].status = HTTP_413_REQUEST_ENTITY_TOO_LARGE
              /\ req[r].calls = 0
              /\ req[r].service = 0

C17_Witness ==
    \E r \in Reqs, q \in Reqs :
        /\ req[r].stage = "generate"
        /\ req[r].docs = MaxTotalPdfs - 1
        /\ pc = "s1"
        /\ req[q].stage = "finished"
        /\ req[q].docs_small = "no"
        /\ req[q].status = HTTP_413_REQUEST_ENTITY_TOO_LARGE

\* The top-level {...} spans of a text: a span opens with a '{' met outside
\* string literals at depth 0 and closes with the '}' that brings the depth
\* back to 0; inside a string literal a backslash takes the next character
\* with it.  start = 0 when no span is open.
RECURSIVE SpanScan(_, _, _, _, _, _)
SpanStep(t, i, depth, start, spans) ==
    IF i > Len(t) THEN spans
    ELSE IF t[i] = QT THEN SpanScan(t, i + 1, depth, start, TRUE, spans)
    ELSE IF t[i] = "{"
    THEN SpanScan(t, i + 1, depth + 1, IF depth = 0 THEN i ELSE start, FALSE, spans)
    ELSE IF depth = 1
    THEN SpanScan(t, i + 1, 0, 0, FALSE, Append(spans, SubSeq(t, start, i)))
    ELSE IF depth > 1
    THEN SpanScan(t, i + 1, depth - 1, start, FALSE, spans)
    ELSE SpanScan(t, i + 1, depth, start, FALSE, spans)

SpanScan(t, i, depth, start, in_string, spans) ==
    IF in_string
    THEN IF NextAt(t, i, {BS, QT}) > Len(t) THEN spans
         ELSE IF t[NextAt(t, i, {BS, QT})] = BS
         THEN SpanScan(t, NextAt(t, i, {BS, QT}) + 2, depth, start, TRUE, spans)
         ELSE SpanScan(t, NextAt(t, i, {BS, QT}) + 1, depth, start, FALSE, spans)
    ELSE SpanStep(t, NextAt(t, i, {QT, "{", "}"}), depth, start, spans)

TopLevelSpans(t) == SpanScan(t, 1, 0, 0, FALSE, <<>>)

\* the spans that are valid JSON objects, decoded, in text order
ValidSpans(t) ==
    LET spans == TopLevelSpans(t)
        good == SelectSeq(spans, LAMBDA x : JsonLoads(x).ok /\ JsonLoads(x).val.kind = "obj")
    IN  [i \in 1..Len(good) |-> JsonLoads(good[i]).val]

\* the keys of a sequence of objects, and the value the last one gives a key
KeysOf(objs) == UNION {DictKeys(objs[i].members) : i \in 1..Len(objs)}

LastValue(objs, k) ==
    DictGet(objs[SetMax({i \in 1..Len(objs) : k \in DictKeys(objs[i].members)})].members, k)

\* a mapping holds exactly the keys of the objects, each with its last value
IsMergeOf(members, objs) ==
    /\ DictKeys(members) = KeysOf(objs)
    /\ \A k \in KeysOf(objs) : DictGet(members, k) = LastValue(objs, k)

\* strategy 5 was entered and has ended
Strategy5Ended == Len(tried) = 5 /\ pc \in {"post", "done"}

\* C18: when strategy 5 runs on a text of which at least one top-level span is
\* a valid JSON object, it returns the merge of all the valid spans, whatever
\* else stands before, between or after them, an empty merge included.
C18_SpansParsedIndependently ==
    (Strategy5Ended /\ ValidSpans(CleanJsonString(report_text)) # <<>>) =>
        /\ parsed.tag = "ok"
        /\ parsed.val.kind = "obj"
        /\ IsMergeOf(parsed.val.members, ValidSpans(CleanJsonString(report_text)))

\* C19: the mapping strategy 5 returns holds exactly the keys of the objects it
\* parsed, each key with the value of the last parsed object that has it; and
\* every object it parsed is the decoded form of a top-level span of the
\* normalized text, so nothing comes from a span that failed to parse.
C19_LastWriteWins ==
    (parsed.tag = "ok" /\ parsed.strategy = 5) =>
        /\ parsed.val.kind = "obj"
        /\ found_objects # <<>>
        /\ IsMergeOf(parsed.val.members, found_objects)
        /\ \A i \in 1..Len(found_objects) :
              \E j \in 1..Len(ValidSpans(CleanJsonString(report_text))) :
                  ValidSpans(CleanJsonString(report_text))[j] = found_objects[i]

C19_Witness ==
    /\ pc = "done"
    /\ parsed.tag = "ok"
    /\ parsed.strategy = 5
    /\ Len(found_objects) = 2
    /\ found_objects[1] = ObjV(<<Member(<<"a">>, Num1)>>)
    /\ found_objects[2] = ObjV(<<Member(<<"a">>, Num2)>>)
    /\ parsed.val = ObjV(<<Member(<<"a">>, Num2)>>)
    /\ response.family = "spans"

\* strategy 4 was entered and has ended
Strategy4Ended == Len(tried) >= 5 \/ (Len(tried) = 4 /\ pc \in {"s5", "post", "done"})

\* C20: strategy 4 builds a candidate exactly when the net number of '{' or of
\* '[' left open outside string literals in the normalized text is positive,
\* and the candidate is that text, then one '}' for every open brace, then one
\* ']' for every open bracket; with no positive count the cascade goes on to
\* strategy 5 without a candidate.
C20_TruncationCandidate ==
    Strategy4Ended =>
        LET cleaned == CleanJsonString(report_text)
            b == OpenBraces(cleaned)
            k == OpenBrackets(cleaned)
        IN  /\ fixed.built <=> (b > 0 \/ k > 0)
            /\ fixed.built =>
                  fixed.text = cleaned \o [i \in 1..(IF b > 0 THEN b ELSE 0) |-> "}"]
                                       \o [i \in 1..(IF k > 0 THEN k ELSE 0) |-> "]"]
            /\ ~fixed.built =>
                  /\ parsed.tag = "ok" => parsed.strategy = 5
                  /\ pc = "s5" \/ Len(tried) = 5

\* The rewrite as the text describes it, character by character: outside a
\* literal every character is copied and a quote opens a literal; inside, a
\* backslash is copied with the character after it, a quote is copied and
\* closes the literal, a raw line feed, carriage return or tab is replaced by
\* its escape, anything else is copied.
RECURSIVE Rewritten(_, _)
Rewritten(t, in_literal) ==
    IF t = <<>> THEN <<>>
    ELSE IF ~in_literal THEN <<Head(t)>> \o Rewritten(Tail(t), Head(t) = QT)
    ELSE IF Head(t) = BS
    THEN IF Len(t) > 1 THEN <<BS, t[2]>> \o Rewritten(Tail(Tail(t)), TRUE) ELSE <<BS>>
    ELSE IF Head(t) = QT THEN <<QT>> \o Rewritten(Tail(t), FALSE)
    ELSE (CASE Head(t) = LF -> <<BS, "n">>
            [] Head(t) = CR -> <<BS, "r">>
            [] Head(t) = TAB -> <<BS, "t">>
            [] OTHER -> <<Head(t)>>) \o Rewritten(Tail(t), TRUE)

\* the texts short enough for the character-by-character description
ShortText == Len(report_text) <= StartsWithLen

\* `fixed` is `cleaned` with nothing but the raw line breaks of its literals
\* rewritten
RewriteIsFramed(cleaned, rewritten) ==
    /\ rewritten = Rewritten(cleaned, FALSE)
    /\ (\A i \in 1..Len(cleaned) : cleaned[i] \notin {LF, CR, TAB}) => rewritten = cleaned
    /\ Cardinality({i \in 1..Len(rewritten) : rewritten[i] = QT})
          = Cardinality({i \in 1..Len(cleaned) : cleaned[i] = QT})

\* C21: on the normalized text the rewrite of strategy 3 changes nothing but
\* the raw line feeds, carriage returns and tabs inside string literals, each
\* into its two-character escape; a backslash inside a literal is copied with
\* the character after it and an escaped quote does not end the literal; a
\* text without such characters comes out unchanged.  (Every text the model
\* answers with is in report_text when strategy 1 is about to start.)
C21_OnlyRawNewlinesRewritten ==
    (pc = "s1" /\ ShortText) =>
        RewriteIsFramed(CleanJsonString(report_text),
                        EscapeNewlinesInStrings(CleanJsonString(report_text)))

\* strategy 3 recovered a document whose text holds an escaped quote and,
\* later in the same literal, a raw line feed
C21_Witness ==
    /\ pc = "done"
    /\ parsed.tag = "ok"
    /\ parsed.strategy = 3
    /\ response.family = "newline"
    /\ \E i \in 1..Len(report_text), j \in 1..Len(report_text) :
          /\ i + 1 < j
          /\ report_text[i] = BS
          /\ report_text[i + 1] = QT
          /\ report_text[j] = LF
    /\ parsed.val = response.doc

\* the three scanners flag every position of a text alike
ScannersAgree(cleaned) ==
    /\ Len(EscapeInString(cleaned)) = Len(cleaned)
    /\ EscapeInString(cleaned) = CountInString(cleaned)
    /\ CountInString(cleaned) = SplitInString(cleaned)

\* C22: for every normalized text the scanners of strategies 3, 4 and 5 agree,
\* position by position, on whether the character is inside a string literal,
\* texts with a backslash outside every literal included.
C22_ScannersAgree ==
    pc = "s1" => ScannersAgree(CleanJsonString(report_text))

\* C23: the normalized text holds no character with a code point below 32
\* other than tab, carriage return and line feed, whatever the text held.
C23_NoControlCharacters ==
    pc = "s1" =>
        \A i \in 1..Len(CleanJsonString(report_text)) :
            IsControl(CleanJsonString(report_text)[i]) =>
                CleanJsonString(report_text)[i] \in {TAB, CR, LF}

\* the text after k passes of the loop body, whether or not they remove anything
RECURSIVE Passes(_, _)
Passes(text, k) == IF k = 0 THEN text ELSE Passes(FencePass(text), k - 1)

\* some slice of `text` is `part`
IsSliceOf(part, text) ==
    \E i \in 1..(Len(text) + 1) : SubSeq(text, i, i + Len(part) - 1) = part

\* n passes ran on `trimmed` and left `stripped`: every pass before the last
\* removed something, and the last removed nothing unless it was the tenth
LoopStopsEarly(trimmed, n, stripped) ==
    /\ n \in 1..MaxFencePasses
    /\ \A k \in 1..(n - 1) : Passes(trimmed, k) # Passes(trimmed, k - 1)
    /\ n < MaxFencePasses => Passes(trimmed, n) = Passes(trimmed, n - 1)
    /\ stripped = Passes(trimmed, n)

\* no fence marker character, and no '{' before a '}'
Plain(text) ==
    /\ \A i \in 1..Len(text) : text[i] # BT
    /\ ~\E i \in 1..Len(text), j \in 1..Len(text) : i < j /\ text[i] = "{" /\ text[j] = "}"

\* C24: _clean_json_string gives a result for every text: its loop runs at
\* least once and at most 10 times and leaves at the first pass that removes
\* nothing; the result is a slice of the text; a text without fence markers
\* and without a '{' before a '}' comes back trimmed and otherwise unchanged.
C24_NormalizeTerminates ==
    (pc = "s1" /\ ShortText) =>
        /\ LoopStopsEarly(Strip(response.text),
                          FencePassCount(Strip(response.text), MaxFencePasses),
                          StripFences(Strip(response.text), MaxFencePasses))
        /\ IsSliceOf(CleanJsonString(response.text), response.text)
        /\ Plain(response.text) => CleanJsonString(response.text) = Strip(response.text)

\* a text with one marker more than the loop has passes went through all the
\* passes and the cascade went on with what was left
C24_Witness ==
    /\ pc = "done"
    /\ response.text = Fences(MaxNesting) \o <<"x">>
    /\ FencePassCount(report_text, MaxFencePasses) = MaxFencePasses
    /\ CleanJsonString(report_text) = Fence \o <<"x">>
    /\ Len(tried) = 5
    /\ result.error_type = "json_parse_error"

\* C25: when all five strategies failed, the result carries the length of
\* report_text (the stripped text of the response) as response_length, its
\* first 100 characters as starts_with and its last 100 as ends_with, and the
\* whole text in both when it has fewer than 100 characters.
C25_FailureDiagnostics ==
    (pc = "done" /\ parsed.tag = "raise") =>
        /\ Len(tried) = 5
        /\ result.response_length = Len(report_text)
        /\ IF Len(report_text) <= StartsWithLen
           THEN result.starts_with = report_text /\ result.ends_with = report_text
           ELSE /\ result.starts_with = [i \in 1..StartsWithLen |-> report_text[i]]
                /\ result.ends_with =
                      [i \in 1..EndsWithLen |-> report_text[Len(report_text) - EndsWithLen + i]]

C25_Witness ==
    /\ pc = "done"
    /\ parsed.tag = "raise"
    /\ result.response_length = StartsWithLen + 1
    /\ Len(result.starts_with) = StartsWithLen
    /\ Len(result.ends_with) = EndsWithLen
    /\ result.starts_with # result.ends_with
    /\ result.ends_with[EndsWithLen] = report_text[StartsWithLen + 1]

\* generate_proposal is inside _parse_json_safely
InCascade == pc \in {"s1", "s2", "s3", "s4", "s5"}

MemberEnd(d, i) == 1 + Len(WriteMembers(SubSeq(d.members, 1, i), FALSE))

\* the top-level pairs of the document that the cut text holds in full
CompletePairs(d, text) == {i \in 1..Len(d.members) : MemberEnd(d, i) <= Len(text)}

\* C27: when strategy 4 returns a mapping for a document whose text was cut,
\* every top-level pair that the cut text holds in full is in the mapping,
\* with its value.
C27_RepairKeepsCompletePairs ==
    (parsed.tag = "ok" /\ parsed.strategy = 4 /\ response.family = "truncated") =>
        \A i \in CompletePairs(response.doc, response.text) :
            /\ response.doc.members[i].k \in DictKeys(parsed.val.members)
            /\ DictGet(parsed.val.members, response.doc.members[i].k)
                  = response.doc.members[i].v

\* the names of the fields the success path writes after decoding
Bookkeeping ==
    { <<"status">>, <<"message">>, <<"generated_at">>, <<"actual_word_count">>,
      <<"estimated_pages">> }

\* the required sections the decoded document does not have
Absent(doc) == {i \in 1..Len(RequiredFields) : RequiredFields[i] \notin DictKeys(doc)}

\* `warnings` lists exactly the absent sections, in the order of the code's list
ListsAbsent(warnings, doc) ==
    /\ warnings.kind = "obj"
    /\ <<"missing_fields">> \in DictKeys(warnings.members)
    /\ DictGet(warnings.members, <<"missing_fields">>).kind = "arr"
    /\ LET listed == DictGet(warnings.members, <<"missing_fields">>).items
       IN  /\ Len(listed) = Cardinality(Absent(doc))
           /\ \A n \in 1..Len(listed) :
                 /\ listed[n].kind = "str"
                 /\ \E i \in Absent(doc) : listed[n].str = RequiredFields[i]
           /\ \A i \in Absent(doc) : \E n \in 1..Len(listed) : listed[n].str = RequiredFields[i]

\* the dict generate_proposal returns for the decoded document `doc`
IsStamped(data, doc) ==
    /\ Bookkeeping \subseteq DictKeys(data)
    /\ DictGet(data, <<"status">>) = StrV(<<"success">>)
    /\ DictGet(data, <<"message">>) = StrV(<<"Proposal", SP, "generated", SP, "successfully">>)
    /\ DictGet(data, <<"generated_at">>) = StrV(<<"isoformat">>)
    /\ DictGet(data, <<"actual_word_count">>).kind = "num"
    /\ DictGet(data, <<"estimated_pages">>).kind = "str"
    /\ \A k \in DictKeys(doc) \ (Bookkeeping \cup {<<"_warnings">>}) :
          k \in DictKeys(data) /\ DictGet(data, k) = DictGet(doc, k)
    /\ IF Absent(doc) # {}
       THEN <<"_warnings">> \in DictKeys(data)
            /\ ListsAbsent(DictGet(data, <<"_warnings">>), doc)
       ELSE /\ <<"_warnings">> \in DictKeys(data) <=> <<"_warnings">> \in DictKeys(doc)
            /\ <<"_warnings">> \in DictKeys(data) =>
                  DictGet(data, <<"_warnings">>) = DictGet(doc, <<"_warnings">>)

\* C28: every result of generate_proposal that is not an error has status
\* "success" and the fields message, generated_at, actual_word_count and
\* estimated_pages as the success path writes them, whatever the decoded
\* document holds under those names; every other key of the document is kept;
\* "_warnings" with missing_fields is written exactly when a required section
\* is absent and lists exactly the absent ones.
C28_BookkeepingOverrides ==
    (pc = "done" /\ result.status # "error") =>
        /\ result.status = "success"
        /\ result.message = MsgSuccess
        /\ parsed.tag = "ok"
        /\ parsed.val.kind = "obj"
        /\ IsStamped(result.data, parsed.val.members)
        /\ result.missing_fields # <<>> <=> Absent(parsed.val.members) # {}

\* a document with "status": "error" and a "_warnings" of its own, one
\* required section missing
C28_Witness ==
    /\ pc = "done"
    /\ result.status = "success"
    /\ response.family = "proposal"
    /\ {<<"status">>, <<"_warnings">>} \subseteq DictKeys(parsed.val.members)
    /\ DictGet(parsed.val.members, <<"status">>) = StrV(<<"error">>)
    /\ DictGet(parsed.val.members, <<"_warnings">>) = StrV(<<"x">>)
    /\ DictGet(result.data, <<"status">>) = StrV(<<"success">>)
    /\ result.missing_fields = <<RequiredFields[Len(RequiredFields)]>>
    /\ DictGet(result.data, <<"_warnings">>).kind = "obj"

\* the handler of request r has returned or raised
Finished(r) == req[r].stage = "finished"

\* the tender file and every supporting document the handler took up are closed
FilesClosed(r) == req[r].tender_closed /\ ~req[r].docs_open

\* C29: every uploaded file analyze_tender_document receives, the tender file
\* and each supporting document, has been closed by the time the handler
\* returns or raises, on every exit path
C29_AllFilesClosed == \A r \in Reqs : Finished(r) => FilesClosed(r)

\* the exit paths on which C29 does hold: the handler went through its finally
\* clause and had at most one supporting document to read
C29_ClosedThroughFinally ==
    \A r \in Reqs :
        (Finished(r) /\ req[r].tender_small # "?" /\ req[r].docs <= 1) => FilesClosed(r)

\* the validation errors raised before the try statement leave the tender open
C29_OpenBeforeTry ==
    \A r \in Reqs :
        (Finished(r) /\ req[r].error \in {"Invalid file type for main tender",
                                          "Invalid file type in supporting documents",
                                          "Too many documents"})
            => ~req[r].tender_closed

\* the positions in chars where a word begins
WordStarts(chars) ==
    {k \in 1..Len(chars) : ~IsSpace(chars[k]) /\ (k = 1 \/ IsSpace(chars[k - 1]))}

\* the words of the top-level strings of a dict (item 0) and of the strings
\* that are items of its top-level lists, each word as <<member, item, start>>
TopLevelWords(members) ==
    UNION { IF members[i].v.kind = "str"
            THEN {<<i, 0, k>> : k \in WordStarts(members[i].v.str)}
            ELSE IF members[i].v.kind = "arr"
            THEN UNION { IF members[i].v.items[j].kind = "str"
                         THEN {<<i, j, k>> : k \in WordStarts(members[i].v.items[j].str)}
                         ELSE {} : j \in 1..Len(members[i].v.items) }
            ELSE {} : i \in 1..Len(members) }

\* the keys written behind the word count
WrittenAfterCount == {<<"actual_word_count">>, <<"estimated_pages">>}

\* the dict as the counting loop saw it: the result without the two keys
\* written later, which then held what the decoded document gave them, if
\* anything
AtCounting(data, decoded) ==
    SelectSeq(data, LAMBDA m : m.k \notin WrittenAfterCount)
        \o SelectSeq(decoded, LAMBDA m : m.k \in WrittenAfterCount)

Larger(a, b) == IF a >= b THEN a ELSE b
Smaller(a, b) == IF a <= b THEN a ELSE b

\* the estimate of a result is "L-U" with the L and U of the word total w
PagesOf(w, res) ==
    LET L == Larger(15, Smaller(20, w \div 600))
        U == Larger(16, Smaller(22, w \div 500))
    IN  /\ res.pages_low = L
        /\ res.pages_high = U
        /\ <<"estimated_pages">> \in DictKeys(res.data)
        /\ DictGet(res.data, <<"estimated_pages">>) = StrV(<<ToString(L), "-", ToString(U)>>)
        /\ 15 <= L /\ L <= 20
        /\ 16 <= U /\ U <= 22
        /\ L < U

\* C30: for every total word count w, estimated_pages is "L-U" with
\* L = max(15, min(20, w div 600)) and U = max(16, min(22, w div 500)), so that
\* 15 <= L <= 20, 16 <= U <= 22 and L < U; and w counts only the top-level
\* strings and the string items of top-level lists of the result as it was
\* when the words were counted
C30_EstimatedPages ==
    (pc = "done" /\ result.status = "success") =>
        /\ PagesOf(result.actual_word_count, result)
        /\ parsed.tag = "ok" =>
             result.actual_word_count =
                 Cardinality(TopLevelWords(AtCounting(result.data, parsed.val.members)))

\* a proposal of 12000 words or more: both estimates at their caps
C30_Witness ==
    /\ pc = "done"
    /\ result.status = "success"
    /\ result.actual_word_count >= 12000
    /\ <<"estimated_pages">> \in DictKeys(result.data)
    /\ DictGet(result.data, <<"estimated_pages">>) = StrV(<<"20", "-", "22">>)

\* a decoded document with words in nested values, which are not counted
C30_NestedNotCounted ==
    /\ pc = "done"
    /\ result.status = "success"
    /\ parsed.tag = "ok"
    /\ \E i \in 1..Len(parsed.val.members) : parsed.val.members[i].v.kind = "obj"
    /\ result.actual_word_count > 5

====
